---- MODULE Spec2Model ----
(***************************************************************************)
(* A model of the NES emulator core: the PPU register file, the cartridge  *)
(* mapper's PPU/CPU address space, the CPU bus (NESMemory), the 6502       *)
(* interpreter and the frame loop that drives them.                        *)
(*                                                                         *)
(* The emulator's objects (PPU, MapperAddressSpace, NESMemory, CPU) are    *)
(* records; every method is an operator from the object(s) before the call *)
(* to a result record holding the object(s) after the call, the returned   *)
(* value and whether the call panicked.  Actions apply these operators.    *)
(***************************************************************************)
EXTENDS Integers, Sequences, FiniteSets, TLC

VARIABLES
    ppu,        \* the PPU struct (src/ppu/ppu.go)
    cartMapper, \* the Mapper the PPU and the bus share
    mem,        \* the NESMemory struct: ram, currentKeyRead
    pressed,    \* InputProvider.pressed: the logical keys currently held
    cpu,        \* the CPU struct
    loop,       \* position of main()'s frame loop: scanline, cycles, pc
    panicked,   \* TRUE once a Go panic has ended the process
    lastOp,     \* the call the last step made: its kind, address and value
    ret,        \* what that call returned
    pre,        \* the objects as they were before that call
    prevOp,     \* the call made before lastOp (kept under Spec only)
    prevPre,    \* the objects as they were before prevOp (under Spec only)
    strobe,     \* bit 0 of the last value written to 0x4016 (observer only)
    reads,      \* reads of 0x4016 made since a write to 0x4016 with bit 0
                \* clear, or since power-on (observer only)
    nOps,       \* number of steps taken so far
    nesImage    \* main()'s nesFile: the cartridge image the run was started on

vars == <<ppu, cartMapper, mem, pressed, cpu, loop, panicked, lastOp, ret, pre,
          prevOp, prevPre, strobe, reads, nOps, nesImage>>

-----------------------------------------------------------------------------
(* Fixed-width integer arithmetic, as Go's uint8/uint16 operators compute it *)

RECURSIVE And(_, _)
And(a, b) ==
    IF a = 0 \/ b = 0 THEN 0
    ELSE (a % 2) * (b % 2) + 2 * And(a \div 2, b \div 2)

RECURSIVE Or(_, _)
Or(a, b) ==
    IF a = 0 THEN b
    ELSE IF b = 0 THEN a
    ELSE (IF a % 2 = 1 \/ b % 2 = 1 THEN 1 ELSE 0) + 2 * Or(a \div 2, b \div 2)

RECURSIVE Xor(_, _)
Xor(a, b) ==
    IF a = 0 THEN b
    ELSE IF b = 0 THEN a
    ELSE ((a + b) % 2) + 2 * Xor(a \div 2, b \div 2)

\* ^uint16(m): the 16-bit complement of a mask.
Not16(m) == \hFFFF - m

U8(x) == x % 256
U16(x) == x % 65536

\* bit n of x, as 0 or 1
Bit(x, n) == (x \div (2 ^ n)) % 2

Byte == 0 .. 255

-----------------------------------------------------------------------------
(* Go arrays and slices of bytes.  An array is zero when allocated; it is   *)
(* kept as the function from the offsets holding a non-zero byte to that   *)
(* byte, so that equal arrays are equal values.                            *)

EmptyMem == [x \in {} |-> 0]

Rd(m, a) == IF a \in DOMAIN m THEN m[a] ELSE 0

Wr(m, a, v) ==
    IF v = 0
    THEN [x \in (DOMAIN m) \ {a} |-> m[x]]
    ELSE [x \in (DOMAIN m) \cup {a} |-> IF x = a THEN v ELSE m[x]]

-----------------------------------------------------------------------------
(* package nesfile: the cartridge image the mappers are built from          *)

Horizontal == 0
Vertical == 1
FourScreen == 2

\* A Go slice into a bank array: which array, and the offset it starts at.
\* rom = TRUE: chrRom[bank][off:off+0x1000]; rom = FALSE: the CHR-RAM array
\* number `bank` allocated by the constructor.
PtSlice(rom, bank, off) == [rom |-> rom, bank |-> bank, off |-> off]

-----------------------------------------------------------------------------
(* package mapper: MapperAddressSpace and mapper 0                          *)

\* setupNametables: the four nametable slots as indexes of the two physical
\* banks (0: ppuNtBank0, 1: ppuNtBank1).
setupNametablesSwapped(nesFile) ==
    IF nesFile.Mirroring = Horizontal
    THEN [panic |-> FALSE, ppuNts |-> [i \in 0 .. 3 |-> i % 2]]
    ELSE IF nesFile.Mirroring = Vertical
    THEN [panic |-> FALSE, ppuNts |-> [i \in 0 .. 3 |-> IF i < 2 THEN 0 ELSE 1]]
    ELSE [panic |-> TRUE, ppuNts |-> [i \in 0 .. 3 |-> 0]]

setupNametables(nesFile) ==
    IF nesFile.Mirroring = Horizontal
    THEN [panic |-> FALSE, ppuNts |-> [i \in 0 .. 3 |-> IF i < 2 THEN 0 ELSE 1]]
    ELSE IF nesFile.Mirroring = Vertical
    THEN [panic |-> FALSE, ppuNts |-> [i \in 0 .. 3 |-> i % 2]]
    ELSE [panic |-> TRUE, ppuNts |-> [i \in 0 .. 3 |-> 0]]

NewMapper0(nesFile) ==
    LET nPrg == Cardinality(DOMAIN nesFile.PrgRom)
        hasRom == Cardinality(DOMAIN nesFile.ChrRom) # 0
    IN  [ id         |-> 0,
          cpuSram    |-> EmptyMem,
          prgRom     |-> nesFile.PrgRom,
          cpuPages   |-> [i \in 0 .. 1 |-> IF i = 0 THEN 0 ELSE nPrg - 1],
          chrRom     |-> nesFile.ChrRom,
          ptRam      |-> [i \in 0 .. 1 |-> EmptyMem],
          ppuPtIsROM |-> hasRom,
          ppuPt0     |-> IF hasRom THEN PtSlice(TRUE, 0, 0) ELSE PtSlice(FALSE, 0, 0),
          ppuPt1     |-> IF hasRom THEN PtSlice(TRUE, 0, \h1000) ELSE PtSlice(FALSE, 1, 0),
          ppuNts     |-> setupNametables(nesFile).ppuNts,
          ppuNtBank0 |-> EmptyMem,
          ppuNtBank1 |-> EmptyMem ]

\* Read and write through a pattern-table slice.
PtRd(m, s, a) ==
    IF s.rom THEN Rd(m.chrRom[s.bank], s.off + a) ELSE Rd(m.ptRam[s.bank], a)

PtWr(m, s, a, v) ==
    IF s.rom
    THEN [m EXCEPT !.chrRom[s.bank] = Wr(@, s.off + a, v)]
    ELSE [m EXCEPT !.ptRam[s.bank] = Wr(@, a, v)]

NtRd(m, slot, a) ==
    IF m.ppuNts[slot] = 0 THEN Rd(m.ppuNtBank0, a) ELSE Rd(m.ppuNtBank1, a)

NtWr(m, slot, a, v) ==
    IF m.ppuNts[slot] = 0
    THEN [m EXCEPT !.ppuNtBank0 = Wr(@, a, v)]
    ELSE [m EXCEPT !.ppuNtBank1 = Wr(@, a, v)]

\* MapperAddressSpace.ReadPPU
ReadPPU(m, addr) ==
    IF addr < \h1000 THEN [val |-> PtRd(m, m.ppuPt0, addr), panic |-> FALSE]
    ELSE IF addr < \h2000
    THEN [val |-> PtRd(m, m.ppuPt1, And(addr, \h0FFF)), panic |-> FALSE]
    ELSE IF addr < \h3F00
    THEN LET a == And(addr, \h0FFF)
         IN  [val |-> NtRd(m, a \div \h400, And(a, \h3FF)), panic |-> FALSE]
    ELSE [val |-> 0, panic |-> TRUE]

\* MapperAddressSpace.WritePPU
WritePPU(m, addr, val) ==
    IF addr < \h1000
    THEN [cart |-> PtWr(m, m.ppuPt0, addr, val), cycles |-> 0, panic |-> FALSE]
    ELSE IF addr < \h2000
    THEN [cart |-> PtWr(m, m.ppuPt1, And(addr, \h0FFF), val), cycles |-> 0,
          panic |-> FALSE]
    ELSE IF addr < \h3F00
    THEN LET a == And(addr, \h0FFF)
         IN  [cart |-> NtWr(m, a \div \h400, And(a, \h3FF), val), cycles |-> 0,
              panic |-> FALSE]
    ELSE [cart |-> m, cycles |-> 0, panic |-> TRUE]

\* MapperAddressSpace.ReadCPU
ReadCPU(m, addr) ==
    IF addr < \h4018 THEN [val |-> 0, panic |-> TRUE]
    ELSE IF addr < \h6000 THEN [val |-> 0, panic |-> FALSE]
    ELSE IF addr < \h8000
    THEN [val |-> Rd(m.cpuSram, And(addr, \h1FFF)), panic |-> FALSE]
    ELSE IF addr < \hC000
    THEN [val |-> Rd(m.prgRom[m.cpuPages[0]], And(addr, \h3FFF)), panic |-> FALSE]
    ELSE [val |-> Rd(m.prgRom[m.cpuPages[1]], And(addr, \h3FFF)), panic |-> FALSE]

\* Mapper0.WriteCPU: no remapping with mapper 0.
Mapper0WriteCPU(m, addr, val) == [cart |-> m, cycles |-> 0, panic |-> FALSE]

-----------------------------------------------------------------------------
(* package mapper: mapper 1 (MMC1)                                          *)

\* NewMapper1.  shiftReg, whichBit and controlReg start as Go's zero values.
NewMapper1(nesFile) ==
    LET nPrg == Cardinality(DOMAIN nesFile.PrgRom)
        hasRom == Cardinality(DOMAIN nesFile.ChrRom) # 0
    IN  [ id         |-> 1,
          cpuSram    |-> EmptyMem,
          prgRom     |-> nesFile.PrgRom,
          cpuPages   |-> [i \in 0 .. 1 |-> IF i = 0 THEN 0 ELSE nPrg - 1],
          chrRom     |-> nesFile.ChrRom,
          ptRam      |-> [i \in 0 .. 1 |-> EmptyMem],
          ppuPtIsROM |-> hasRom,
          ppuPt0     |-> IF hasRom THEN PtSlice(TRUE, 0, 0) ELSE PtSlice(FALSE, 0, 0),
          ppuPt1     |-> IF hasRom THEN PtSlice(TRUE, 0, \h1000) ELSE PtSlice(FALSE, 1, 0),
          ppuNts     |-> setupNametables(nesFile).ppuNts,
          ppuNtBank0 |-> EmptyMem,
          ppuNtBank1 |-> EmptyMem,
          shiftReg   |-> 0,
          whichBit   |-> 0,
          controlReg |-> 0 ]

\* Mapper1.controlRegChanged: the mirroring the control register's two low
\* bits select.
controlRegChanged(m) ==
    LET mode == And(m.controlReg, 3)
    IN  [m EXCEPT !.ppuNts =
            CASE mode = 0 -> [i \in 0 .. 3 |-> 0]
              [] mode = 1 -> [i \in 0 .. 3 |-> 1]
              [] mode = 2 -> [i \in 0 .. 3 |-> i % 2]
              [] mode = 3 -> [i \in 0 .. 3 |-> IF i < 2 THEN 0 ELSE 1]]

\* Mapper1.remapChr0
remapChr0(m) ==
    LET nChr == Cardinality(DOMAIN m.chrRom)
        romIndex == (m.shiftReg \div 2) % nChr
    IN  IF nChr = 0 THEN [cart |-> m, panic |-> FALSE]
        ELSE IF And(\h10, m.controlReg) = 0
        THEN [cart |-> [m EXCEPT !.ppuPt0 = PtSlice(TRUE, romIndex, 0),
                                 !.ppuPt1 = PtSlice(TRUE, romIndex, \h1000)],
              panic |-> FALSE]
        ELSE [cart |-> [m EXCEPT !.ppuPt0 =
                            PtSlice(TRUE, romIndex,
                                    IF And(m.shiftReg, 1) = 0 THEN 0 ELSE \h1000)],
              panic |-> FALSE]

\* Mapper1.remapChr1.  With no CHR-ROM bank the remainder's divisor is zero:
\* Go's integer division by zero panics.
remapChr1(m) ==
    LET nChr == Cardinality(DOMAIN m.chrRom)
    IN  IF And(\h10, m.controlReg) = \h10
        THEN IF nChr = 0 THEN [cart |-> m, panic |-> TRUE]
             ELSE [cart |-> [m EXCEPT !.ppuPt1 =
                                PtSlice(TRUE, (m.shiftReg \div 2) % nChr,
                                        IF And(m.shiftReg, 1) = 0 THEN 0 ELSE \h1000)],
                   panic |-> FALSE]
        ELSE [cart |-> m, panic |-> FALSE]

\* Mapper1.remapPrg.  The 32 KiB modes index prgRom without a remainder: a
\* bank number past the last bank is Go's index-out-of-range panic.
remapPrg(m) ==
    LET nPrg == Cardinality(DOMAIN m.prgRom)
        shiftReg == And(m.shiftReg, \h0F)
        prgRomBankMode == And(m.controlReg \div 4, 3)
        bankIndex == shiftReg \div 2
        masked == [m EXCEPT !.shiftReg = shiftReg]
    IN  IF prgRomBankMode = 0 \/ prgRomBankMode = 1
        THEN IF bankIndex * 2 + 1 >= nPrg THEN [cart |-> masked, panic |-> TRUE]
             ELSE [cart |-> [masked EXCEPT !.cpuPages[0] = bankIndex * 2,
                                           !.cpuPages[1] = bankIndex * 2 + 1],
                   panic |-> FALSE]
        ELSE IF prgRomBankMode = 2
        THEN [cart |-> [masked EXCEPT !.cpuPages[1] = shiftReg % nPrg],
              panic |-> FALSE]
        ELSE [cart |-> [masked EXCEPT !.cpuPages[0] = shiftReg % nPrg],
              panic |-> FALSE]

\* Mapper1.WriteCPU, a write with the high bit set: the shift register's
\* reset.
resetShiftKeepsBits(m) ==
    controlRegChanged([m EXCEPT !.controlReg = Or(@, \h0C)])

resetShift(m) ==
    [controlRegChanged([m EXCEPT !.controlReg = Or(@, \h0C)])
        EXCEPT !.shiftReg = 0, !.whichBit = 0]

\* Mapper1.WriteCPU, a write with the high bit clear: one more bit in the
\* shift register.
shiftInMSBFirst(m, val) ==
    [m EXCEPT !.shiftReg = Or(@, U8(And(val, 1) * 2 ^ (4 - m.whichBit))),
              !.whichBit = U8(@ + 1)]

shiftIn(m, val) ==
    [m EXCEPT !.shiftReg = Or(@, U8(And(val, 1) * 2 ^ m.whichBit)),
              !.whichBit = U8(@ + 1)]

\* Mapper1.WriteCPU, the fifth bit: the register the address selects takes
\* the shift register's value.
interpretShiftReg(m, addr) ==
    LET applied(c) ==
            IF addr < \hA000
            THEN [cart |-> controlRegChanged([c EXCEPT !.controlReg = c.shiftReg]),
                  panic |-> FALSE]
            ELSE IF addr < \hC000 THEN remapChr0(c)
            ELSE IF addr < \hE000 THEN remapChr1(c)
            ELSE remapPrg(c)
        cleared(r) ==
            [cart |-> [r.cart EXCEPT !.shiftReg = 0], cycles |-> 0, panic |-> r.panic]
    IN  cleared(applied([m EXCEPT !.whichBit = 0]))

\* Mapper1.WriteCPU
Mapper1WriteCPU(m, addr, val) ==
    LET filled(c) ==
            IF c.whichBit < 5 THEN [cart |-> c, cycles |-> 0, panic |-> FALSE]
            ELSE interpretShiftReg(c, addr)
    IN  IF addr < \h8000
        THEN [cart |-> [m EXCEPT !.cpuSram = Wr(@, And(addr, \h1FFF), val)],
              cycles |-> 0, panic |-> FALSE]
        ELSE IF And(val, \h80) = \h80
        THEN [cart |-> resetShift(m), cycles |-> 0, panic |-> FALSE]
        ELSE filled(shiftIn(m, val))

-----------------------------------------------------------------------------
(* package mapper: mappers 2 and 3                                          *)

\* NewMapper2: the pattern tables are RAM whatever the image holds.
NewMapper2(nesFile) ==
    LET nPrg == Cardinality(DOMAIN nesFile.PrgRom)
    IN  [ id         |-> 2,
          cpuSram    |-> EmptyMem,
          prgRom     |-> nesFile.PrgRom,
          cpuPages   |-> [i \in 0 .. 1 |-> IF i = 0 THEN 0 ELSE nPrg - 1],
          chrRom     |-> [b \in {} |-> EmptyMem],
          ptRam      |-> [i \in 0 .. 1 |-> EmptyMem],
          ppuPtIsROM |-> FALSE,
          ppuPt0     |-> PtSlice(FALSE, 0, 0),
          ppuPt1     |-> PtSlice(FALSE, 1, 0),
          ppuNts     |-> setupNametables(nesFile).ppuNts,
          ppuNtBank0 |-> EmptyMem,
          ppuNtBank1 |-> EmptyMem ]

\* The write swapping the bank at 0xC000 instead.
Mapper2WriteCPUHighSlot(m, addr, val) ==
    IF val >= Cardinality(DOMAIN m.prgRom)
    THEN [cart |-> m, cycles |-> 0, panic |-> TRUE]
    ELSE [cart |-> [m EXCEPT !.cpuPages[1] = val], cycles |-> 0, panic |-> FALSE]

\* Mapper2.WriteCPU: any write swaps in a 16 KiB bank at 0x8000; a value
\* past the last bank is an index-out-of-range panic.
Mapper2WriteCPU(m, addr, val) ==
    IF val >= Cardinality(DOMAIN m.prgRom)
    THEN [cart |-> m, cycles |-> 0, panic |-> TRUE]
    ELSE [cart |-> [m EXCEPT !.cpuPages[0] = val], cycles |-> 0, panic |-> FALSE]

\* NewMapper3: the first CHR-ROM bank is loaded; ppuPtIsROM keeps Go's zero
\* value.
NewMapper3(nesFile) ==
    LET nPrg == Cardinality(DOMAIN nesFile.PrgRom)
    IN  [ id         |-> 3,
          cpuSram    |-> EmptyMem,
          prgRom     |-> nesFile.PrgRom,
          cpuPages   |-> [i \in 0 .. 1 |-> IF i = 0 THEN 0 ELSE nPrg - 1],
          chrRom     |-> nesFile.ChrRom,
          ptRam      |-> [i \in 0 .. 1 |-> EmptyMem],
          ppuPtIsROM |-> FALSE,
          ppuPt0     |-> PtSlice(TRUE, 0, 0),
          ppuPt1     |-> PtSlice(TRUE, 0, \h1000),
          ppuNts     |-> setupNametables(nesFile).ppuNts,
          ppuNtBank0 |-> EmptyMem,
          ppuNtBank1 |-> EmptyMem ]

\* Mapper3.WriteCPU: any write swaps in the 8 KiB CHR-ROM bank the value's
\* two low bits number; a number past the last bank is an
\* index-out-of-range panic.
Mapper3WriteCPU(m, addr, val) ==
    LET bank == And(val, 3)
    IN  IF bank >= Cardinality(DOMAIN m.chrRom)
        THEN [cart |-> m, cycles |-> 0, panic |-> TRUE]
        ELSE [cart |-> [m EXCEPT !.ppuPt0 = PtSlice(TRUE, bank, 0),
                                 !.ppuPt1 = PtSlice(TRUE, bank, \h1000)],
              cycles |-> 0, panic |-> FALSE]

\* GetMapper: the constructor mapperTable holds for the image's mapper
\* number.
GetMapper(nesFile) ==
    CASE nesFile.Mapper = 0 -> NewMapper0(nesFile)
      [] nesFile.Mapper = 1 -> NewMapper1(nesFile)
      [] nesFile.Mapper = 2 -> NewMapper2(nesFile)
      [] nesFile.Mapper = 3 -> NewMapper3(nesFile)

\* The Mapper interface's WriteCPU, dispatched on the implementing type.
WriteCPU(m, addr, val) ==
    CASE m.id = 0 -> Mapper0WriteCPU(m, addr, val)
      [] m.id = 1 -> Mapper1WriteCPU(m, addr, val)
      [] m.id = 2 -> Mapper2WriteCPU(m, addr, val)
      [] m.id = 3 -> Mapper3WriteCPU(m, addr, val)

-----------------------------------------------------------------------------
(* package ppu: the PPU struct and its register file                        *)

PPUCTRL == \h2000
PPUMASK == \h2001
PPUSTATUS == \h2002
OAMADDR == \h2003
OAMDATA == \h2004
PPUSCROLL == \h2005
PPUADDR == \h2006
PPUDATA == \h2007

\* NewPPU: Go zeroes every field of the new struct.
NewPPU ==
    [ pal              |-> [i \in 0 .. 31 |-> 0],
      oamData          |-> EmptyMem,
      ppuCtrl          |-> 0,
      ppuMask          |-> 0,
      ppuStatus        |-> 0,
      oamAddr          |-> 0,
      loopyT           |-> 0,
      loopyV           |-> 0,
      loopyX           |-> 0,
      addressLatch     |-> 0,
      bufferedReadData |-> 0,
      scanLineCounter  |-> 0 ]

\* The result of a PPU method: the PPU and the mapper after the call, the
\* value returned, and whether the call panicked.
PPUResult(p, m, val, panic) == [ppu |-> p, cart |-> m, val |-> val, panic |-> panic]

\* SpriteDMA(src): copy(ppu.oamData[:], src) copies min(256, len(src)) bytes;
\* anything but 256 panics.  src is a function on 0 .. len-1.
SpriteDMA(p, src) ==
    LET n == Cardinality(DOMAIN src)
        copied == IF n < 256 THEN n ELSE 256
    IN  [ ppu   |-> [p EXCEPT !.oamData =
                        [i \in {x \in 0 .. 255 :
                                   (IF x < copied THEN src[x] ELSE Rd(@, x)) # 0} |->
                            IF i < copied THEN src[i] ELSE @[i]]],
          panic |-> copied # 256 ]

\* incVRAMAddress
incVRAMAddressBy32Always(p) == [p EXCEPT !.loopyV = U16(@ + 32)]

incVRAMAddress(p) ==
    IF And(p.ppuCtrl, 4) = 0
    THEN [p EXCEPT !.loopyV = U16(@ + 1)]
    ELSE [p EXCEPT !.loopyV = U16(@ + 32)]

\* ReadRegister, case PPUSTATUS
ReadStatusKeepsLatch(p, m) ==
    PPUResult([p EXCEPT !.ppuStatus = And(@, \h7F)], m, p.ppuStatus, FALSE)

ReadStatus(p, m) ==
    PPUResult([p EXCEPT !.ppuStatus = And(@, \h7F), !.addressLatch = 0],
              m, p.ppuStatus, FALSE)

\* ReadRegister, case PPUDATA
ReadDataUnbuffered(p, m) ==
    IF p.loopyV < \h3F00
    THEN LET fetched(r) ==
                 PPUResult(incVRAMAddress([p EXCEPT !.bufferedReadData = r.val]),
                           m, r.val, r.panic)
         IN  fetched(ReadPPU(m, p.loopyV))
    ELSE PPUResult(incVRAMAddress(p), m, p.pal[And(p.loopyV, \h1F)], FALSE)

ReadData(p, m) ==
    IF p.loopyV < \h3F00
    THEN LET fetched(r) ==
                 PPUResult(incVRAMAddress([p EXCEPT !.bufferedReadData = r.val]),
                           m, p.bufferedReadData, r.panic)
         IN  fetched(ReadPPU(m, p.loopyV))
    ELSE PPUResult(incVRAMAddress(p), m, p.pal[And(p.loopyV, \h1F)], FALSE)

\* PPU.ReadRegister
ReadRegister(p, m, mmioreg) ==
    LET reg == And(mmioreg, \h2007)
    IN  CASE reg = PPUCTRL   -> PPUResult(p, m, p.ppuCtrl, FALSE)
          [] reg = PPUMASK   -> PPUResult(p, m, p.ppuMask, FALSE)
          [] reg = PPUSTATUS -> ReadStatus(p, m)
          [] reg = OAMADDR   -> PPUResult(p, m, p.oamAddr, FALSE)
          [] reg = OAMDATA   -> PPUResult(p, m, Rd(p.oamData, p.oamAddr), FALSE)
          [] reg = PPUSCROLL -> PPUResult(p, m, 0, FALSE)
          [] reg = PPUADDR   -> PPUResult(p, m, 0, FALSE)
          [] reg = PPUDATA   -> ReadData(p, m)
          [] OTHER           -> PPUResult(p, m, 0, TRUE)

\* WriteRegister, case PPUSCROLL
WriteScrollClobbersT(p, val) ==
    IF p.addressLatch = 0
    THEN [p EXCEPT !.loopyX = And(val, 7),
                   !.loopyT = And(\h1F, val \div 8),
                   !.addressLatch = 1]
    ELSE [p EXCEPT !.loopyT = Or(Or(And(@, Not16(\h73E0)), And(val, 7) * \h1000),
                                 And(val, \hF8) * 4),
                   !.addressLatch = 0]

WriteScroll(p, val) ==
    IF p.addressLatch = 0
    THEN [p EXCEPT !.loopyX = And(val, 7),
                   !.loopyT = Or(And(@, Not16(\h1F)), And(\h1F, val \div 8)),
                   !.addressLatch = 1]
    ELSE [p EXCEPT !.loopyT = Or(Or(And(@, Not16(\h73E0)), And(val, 7) * \h1000),
                                 And(val, \hF8) * 4),
                   !.addressLatch = 0]

\* WriteRegister, case PPUADDR
WriteAddrNoCopy(p, val) ==
    IF p.addressLatch = 0
    THEN [p EXCEPT !.loopyT = Or(And(@, \h00FF), And(val, \h3F) * 256),
                   !.addressLatch = 1]
    ELSE [p EXCEPT !.loopyT = Or(And(@, \hFF00), val),
                   !.addressLatch = 0]

WriteAddr(p, val) ==
    IF p.addressLatch = 0
    THEN [p EXCEPT !.loopyT = Or(And(@, \h00FF), And(val, \h3F) * 256),
                   !.addressLatch = 1]
    ELSE LET t == Or(And(p.loopyT, \hFF00), val)
         IN  [p EXCEPT !.loopyT = t, !.loopyV = t, !.addressLatch = 0]

\* WriteRegister, case PPUDATA
WriteDataNoMirror(p, m, val) ==
    IF p.loopyV < \h3F00
    THEN LET stored(w) == PPUResult(incVRAMAddress(p), w.cart, 0, w.panic)
         IN  stored(WritePPU(m, p.loopyV, val))
    ELSE LET addr == And(p.loopyV, \h1F)
         IN  PPUResult(incVRAMAddress([p EXCEPT !.pal[addr] = And(val, \h3F)]),
                       m, 0, FALSE)

WriteData(p, m, val) ==
    IF p.loopyV < \h3F00
    THEN LET stored(w) == PPUResult(incVRAMAddress(p), w.cart, 0, w.panic)
         IN  stored(WritePPU(m, p.loopyV, val))
    ELSE LET addr == And(p.loopyV, \h1F)
             v == And(val, \h3F)
             q == [p EXCEPT !.pal[addr] = v]
             r == IF And(addr, 3) = 0 THEN [q EXCEPT !.pal[Xor(addr, \h10)] = v]
                  ELSE q
         IN  PPUResult(incVRAMAddress(r), m, 0, FALSE)

\* PPU.WriteRegister
WriteRegister(p, m, mmioreg, val) ==
    LET reg == And(mmioreg, \h2007)
    IN  CASE reg = PPUCTRL   ->
               PPUResult([p EXCEPT !.ppuCtrl = val,
                                   !.loopyT = Or(And(@, Not16(\h0C00)),
                                                 And(val, 3) * \h400)],
                         m, 0, FALSE)
          [] reg = PPUMASK   -> PPUResult([p EXCEPT !.ppuMask = val], m, 0, FALSE)
          [] reg = PPUSTATUS -> PPUResult(p, m, 0, FALSE)
          [] reg = OAMADDR   -> PPUResult([p EXCEPT !.oamAddr = val], m, 0, FALSE)
          [] reg = OAMDATA   ->
               PPUResult([p EXCEPT !.oamData = Wr(@, p.oamAddr, val),
                                   !.oamAddr = U8(@ + 1)],
                         m, 0, FALSE)
          [] reg = PPUSCROLL -> PPUResult(WriteScroll(p, val), m, 0, FALSE)
          [] reg = PPUADDR   -> PPUResult(WriteAddr(p, val), m, 0, FALSE)
          [] reg = PPUDATA   -> WriteData(p, m, val)
          [] OTHER           -> PPUResult(p, m, 0, TRUE)

\* EnterVBlankShouldNMI: the PPU after the call and the flag returned.
EnterVBlankAlwaysNMI(p) ==
    [ ppu       |-> [p EXCEPT !.ppuStatus = Or(@, \h80)],
      shouldNMI |-> TRUE ]

EnterVBlankShouldNMI(p) ==
    [ ppu       |-> [p EXCEPT !.ppuStatus = Or(@, \h80)],
      shouldNMI |-> And(p.ppuCtrl, \h80) = \h80 ]

\* ExitVBlank
ExitVBlankKeepsSpriteHit(p) ==
    [p EXCEPT !.ppuStatus = And(@, \h7F), !.scanLineCounter = 0]

ExitVBlankKeepsLine(p) == [p EXCEPT !.ppuStatus = And(@, \h3F)]

ExitVBlankClearsLatch(p) ==
    [p EXCEPT !.ppuStatus = And(@, \h3F), !.scanLineCounter = 0, !.addressLatch = 0]

ExitVBlank(p) == [p EXCEPT !.ppuStatus = And(@, \h3F), !.scanLineCounter = 0]

-----------------------------------------------------------------------------
(* package ppu: the scanline renderer                                       *)

DisplayHeight == 240
DisplayWidth == 256

shouldRenderBackground(p) == And(p.ppuMask, 8) = 8

shouldRenderSprites(p) == And(p.ppuMask, \h10) = \h10

isBG(palIndex) == And(palIndex, 3) = 0

\* getPixel: the x-th pixel (x in 0 .. 7) of a tile row held in two bitplanes
getPixel(tileBit0, tileBit1, x) ==
    Or(And(tileBit0 \div (2 ^ (7 - x)), 1),
       IF x = 7 THEN And(2, U8(tileBit1 * 2))
       ELSE And(2, tileBit1 \div (2 ^ (6 - x))))

\* The nametable byte renderBackground fetches: the low twelve bits of
\* loopyV (nametable select and the coarse scrolls), without the fine Y.
nametableAddrUnmasked(v) == Or(\h2000, v)

nametableAddr(v) == Or(\h2000, And(v, \h0FFF))

\* One iteration, for column i, of renderBackground's loop: st holds the PPU
\* and the output row so far.
bgColumn(st, m, ptBaseAddr, i) ==
    LET p == st.ppu
        tileNoToRender == ReadPPU(m, nametableAddr(p.loopyV))
        tileYOffset == And(7, p.loopyV \div \h1000)
        bit0Addr == ptBaseAddr + tileNoToRender.val * 16 + tileYOffset
        tileBit0 == ReadPPU(m, bit0Addr)
        tileBit1 == ReadPPU(m, bit0Addr + 8)
        pix == getPixel(tileBit0.val, tileBit1.val, p.loopyX)
        attrAddr == Or(Or(Or(\h23C0, And(p.loopyV, \h0C00)),
                          And(p.loopyV \div 16, \h38)),
                       And(p.loopyV \div 4, \h07))
        attrRead == ReadPPU(m, attrAddr)
        attrXOffset == Or(p.loopyX, U8(And(p.loopyV, 3) * 8))
        attrYOffset == Or(tileYOffset, And(U8(p.loopyV \div 4), \h18))
        attrByte1 == IF attrYOffset < 16 THEN And(attrRead.val, \h0F)
                     ELSE attrRead.val \div 16
        attrByte2 == IF attrXOffset < 16 THEN U8(attrByte1 * 4) ELSE attrByte1
        val == Or(pix, And(attrByte2, \h0C))
        out == IF i >= 8 \/ And(p.ppuMask, 2) = 2
               THEN [st.out EXCEPT ![i] = val] ELSE st.out
        q == IF p.loopyX < 7
             THEN [p EXCEPT !.loopyX = @ + 1]
             ELSE IF And(p.loopyV, \h1F) = \h1F
                  THEN [p EXCEPT !.loopyX = 0,
                                 !.loopyV = Xor(And(@, Not16(\h1F)), \h0400)]
                  ELSE [p EXCEPT !.loopyX = 0, !.loopyV = U16(@ + 1)]
    IN  [ppu |-> q, out |-> out,
         panic |-> st.panic \/ tileNoToRender.panic \/ tileBit0.panic
                   \/ tileBit1.panic \/ attrRead.panic]

\* Sequencing of loop iterations: an iteration's result is computed in full
\* (it equals itself) before the next iteration starts from it.
Done(st) == st = st

\* The loop over columns lo .. hi-1, split in halves to keep the evaluation
\* shallow; the columns are still rendered in increasing order.
RECURSIVE bgColumns(_, _, _, _, _)
bgColumns(st, m, ptBaseAddr, lo, hi) ==
    IF hi - lo = 1 THEN bgColumn(st, m, ptBaseAddr, lo)
    ELSE LET mid == (lo + hi) \div 2
             left == bgColumns(st, m, ptBaseAddr, lo, mid)
         IN  IF Done(left) THEN bgColumns(left, m, ptBaseAddr, mid, hi) ELSE left

\* The end of renderBackground: move loopyV to the next line.
bgNextLine(p) ==
    IF And(p.loopyV, \h7000) # \h7000
    THEN [p EXCEPT !.loopyV = U16(@ + \h1000)]
    ELSE LET v1 == And(p.loopyV, Not16(\h7000))
             y == And(v1, \h03E0) \div 32
             v2 == IF y = 29 THEN Xor(v1, \h800) ELSE v1
             y2 == IF y = 29 \/ y = 31 THEN 0 ELSE y + 1
         IN  [p EXCEPT !.loopyV = Or(And(v2, Not16(\h03E0)), y2 * 32)]

\* renderBackground
renderBackground(p, m, out) ==
    LET ptBaseAddr == IF And(p.ppuCtrl, \h10) = \h10 THEN \h1000 ELSE 0
        r == bgColumns([ppu |-> p, out |-> out, panic |-> FALSE], m, ptBaseAddr,
                       0, DisplayWidth)
    IN  [r EXCEPT !.ppu = bgNextLine(@)]

\* The inner loop's pixel with the sprite 0 hit raised by any OAM entry.
spritePixelAnySprite(st, background, i, attr, xpos, tileBit0, tileBit1, x) ==
    LET xout == IF And(attr, \h40) = \h40 THEN xpos + (7 - x) ELSE xpos + x
        val == Or(getPixel(tileBit0, tileBit1, x), U8(And(attr, 3) * 4))
    IN  IF xout >= 256 THEN st
        ELSE IF And(st.ppu.ppuMask, 4) = 0 /\ xout < 8 THEN st
        ELSE IF ~isBG(st.out[xout]) THEN st
        ELSE [st EXCEPT
                !.priorityOut[xout] = (And(attr, \h20) = 0),
                !.out[xout] = val,
                !.ppu.ppuStatus =
                    IF xout < 255 /\ ~isBG(val) /\ ~isBG(background[xout])
                    THEN Or(@, \h40) ELSE @]

\* One pixel x (0 .. 7) of sprite i in renderSprites' inner loop: st holds
\* the PPU, the sprite row and the priority row so far.
spritePixel(st, background, i, attr, xpos, tileBit0, tileBit1, x) ==
    LET xout == IF And(attr, \h40) = \h40 THEN xpos + (7 - x) ELSE xpos + x
        val == Or(getPixel(tileBit0, tileBit1, x), U8(And(attr, 3) * 4))
    IN  IF xout >= 256 THEN st
        ELSE IF And(st.ppu.ppuMask, 4) = 0 /\ xout < 8 THEN st
        ELSE IF ~isBG(st.out[xout]) THEN st
        ELSE [st EXCEPT
                !.priorityOut[xout] = (And(attr, \h20) = 0),
                !.out[xout] = val,
                !.ppu.ppuStatus =
                    IF i = 0 /\ xout < 255 /\ ~isBG(val) /\ ~isBG(background[xout])
                    THEN Or(@, \h40) ELSE @]

RECURSIVE spritePixels(_, _, _, _, _, _, _, _)
spritePixels(st, background, i, attr, xpos, tileBit0, tileBit1, x) ==
    IF x >= 8 THEN st
    ELSE spritePixels(spritePixel(st, background, i, attr, xpos, tileBit0, tileBit1, x),
                      background, i, attr, xpos, tileBit0, tileBit1, x + 1)

\* One iteration, for OAM entry i, of renderSprites' outer loop.
spriteEntry(st, m, background, i) ==
    LET p == st.ppu
        spriteSize == IF And(p.ppuCtrl, \h20) = \h20 THEN 16 ELSE 8
        spriteOffset == i * 4
        yCoord == Rd(p.oamData, spriteOffset) + 1
        tile0 == Rd(p.oamData, spriteOffset + 1)
        attr == Rd(p.oamData, spriteOffset + 2)
        xpos == Rd(p.oamData, spriteOffset + 3)
        ptBaseAddr == IF spriteSize = 8
                      THEN (IF And(p.ppuCtrl, 8) = 8 THEN \h1000 ELSE 0)
                      ELSE (IF And(tile0, 1) = 0 THEN 0 ELSE \h1000)
        tile1 == IF spriteSize = 16 /\ And(tile0, 1) # 0 THEN And(tile0, \hFFFE)
                 ELSE tile0
        yOffset == p.scanLineCounter - yCoord
        flipped == And(attr, \h80) = \h80
        tileYOffset ==
            IF flipped
            THEN (IF spriteSize = 8 THEN 7 - yOffset
                  ELSE IF yOffset < 8 THEN 7 - yOffset ELSE 15 - yOffset)
            ELSE (IF spriteSize = 16 /\ yOffset > 7 THEN yOffset - 8 ELSE yOffset)
        tileNoToRender ==
            IF flipped
            THEN (IF spriteSize = 16 /\ yOffset < 8 THEN tile1 + 1 ELSE tile1)
            ELSE (IF spriteSize = 16 /\ yOffset > 7 THEN tile1 + 1 ELSE tile1)
        bit0addr == U16(ptBaseAddr + tileNoToRender * 16 + tileYOffset)
        tileBit0 == ReadPPU(m, bit0addr)
        tileBit1 == ReadPPU(m, U16(bit0addr + 8))
    IN  IF p.scanLineCounter < yCoord THEN st
        ELSE IF p.scanLineCounter >= yCoord + spriteSize THEN st
        ELSE spritePixels([st EXCEPT !.panic = @ \/ tileBit0.panic \/ tileBit1.panic],
                          background, i, attr, xpos, tileBit0.val, tileBit1.val, 0)

\* The loop over OAM entries lo .. hi-1, in increasing order.
RECURSIVE spriteEntries(_, _, _, _, _)
spriteEntries(st, m, background, lo, hi) ==
    IF hi - lo = 1 THEN spriteEntry(st, m, background, lo)
    ELSE LET mid == (lo + hi) \div 2
             left == spriteEntries(st, m, background, lo, mid)
         IN  IF Done(left) THEN spriteEntries(left, m, background, mid, hi) ELSE left

\* renderSprites
renderSprites(p, m, out, priorityOut, background) ==
    spriteEntries([ppu |-> p, out |-> out, priorityOut |-> priorityOut,
                   panic |-> FALSE], m, background, 0, 64)

\* A [256]byte or [256]bool local of RenderScanLine, every element v.  (The
\* @@ makes the row an explicit table, so that 256 updates of it stay flat.)
Row(v) == (0 :> v) @@ [i \in 0 .. 255 |-> v]

\* The merge with the sprite always in front.
palEntrySpriteInFront(bg, sprite, spriteHasPriority) ==
    IF isBG(sprite) THEN (IF isBG(bg) THEN 0 ELSE bg) ELSE \h10 + sprite

\* The merge of RenderScanLine: the palette entry shown for one pixel
palEntry(bg, sprite, spriteHasPriority) ==
    IF isBG(bg)
    THEN (IF isBG(sprite) THEN 0 ELSE \h10 + sprite)
    ELSE IF isBG(sprite) THEN bg
    ELSE IF spriteHasPriority THEN \h10 + sprite
    ELSE bg

\* RenderScanLine, the start of a rendered line: loopyV is loaded from
\* loopyT, in full on line 0 and in its horizontal bits on the others.
loadLoopyVHorizontalOnly(p) ==
    [p EXCEPT !.loopyV = Or(And(@, Not16(\h041F)), And(p.loopyT, \h041F))]

loadLoopyV(p) ==
    IF p.scanLineCounter = 0
    THEN [p EXCEPT !.loopyV = p.loopyT]
    ELSE [p EXCEPT !.loopyV = Or(And(@, Not16(\h041F)), And(p.loopyT, \h041F))]

\* RenderScanLine: the PPU after the call, the line y its pixels were set on
\* and, for each column, the palette RAM entry chosen (SetPixel gets the RGB
\* of Palette[pal[entry]]).  SetPixel indexes a buffer of DisplayHeight lines,
\* so a line beyond it panics.
\* A line rendered with the background or the sprites enabled also reports
\* the locals the merge read - the rows background, sprites and
\* spriteHasPriority - and loopyV as it was when the rows began to be filled.
RenderScanLine(p, m) ==
    IF ~shouldRenderBackground(p) /\ ~shouldRenderSprites(p)
    THEN [ppu     |-> [p EXCEPT !.scanLineCounter = U16(@ + 1)],
          y       |-> p.scanLineCounter,
          entries |-> [i \in 0 .. 255 |-> 0],
          panic   |-> p.scanLineCounter >= DisplayHeight]
    ELSE LET p1 == loadLoopyV(p)
             merged(b, sp) ==
                 [ppu     |-> [sp.ppu EXCEPT !.scanLineCounter = U16(@ + 1)],
                  y       |-> p.scanLineCounter,
                  entries |-> [i \in 0 .. 255 |->
                                  palEntry(b.out[i], sp.out[i], sp.priorityOut[i])],
                  panic   |-> b.panic \/ sp.panic
                              \/ p.scanLineCounter >= DisplayHeight,
                  loopyVAtFetch     |-> p1.loopyV,
                  background        |-> b.out,
                  sprites           |-> sp.out,
                  spriteHasPriority |-> sp.priorityOut]
             sprites(b) ==
                 merged(b, IF shouldRenderSprites(b.ppu)
                           THEN renderSprites(b.ppu, m, Row(0), Row(FALSE), b.out)
                           ELSE [ppu |-> b.ppu, out |-> Row(0),
                                 priorityOut |-> Row(FALSE), panic |-> FALSE])
         IN  sprites(IF shouldRenderBackground(p1)
                     THEN renderBackground(p1, m, Row(0))
                     ELSE [ppu |-> p1, out |-> Row(0), panic |-> FALSE])

-----------------------------------------------------------------------------
(* package wrapper: the logical keys of the InputProvider                   *)

KEY_UP_1 == 0
KEY_DOWN_1 == 1
KEY_LEFT_1 == 2
KEY_RIGHT_1 == 3
KEY_SELECT_1 == 4
KEY_START_1 == 5
KEY_B_1 == 6
KEY_A_1 == 7
KEY_RESET == 8
KEY_QUIT == 9

\* IsKeyPressed(nesKey) first drains the host's event queue into ip.pressed
\* and then answers from it: `keys` is ip.pressed after the drain.
IsKeyPressed(keys, nesKey) == nesKey \in keys

-----------------------------------------------------------------------------
(* package main: NESMemory, the CPU bus                                     *)

RamSize == \h800

\* keyReadOrder, a Go array indexed from 0
keyReadOrderByKeyNumber == [i \in 0 .. 7 |-> i]

keyReadOrder ==
    [i \in 0 .. 7 |->
        CASE i = 0 -> KEY_A_1
          [] i = 1 -> KEY_B_1
          [] i = 2 -> KEY_SELECT_1
          [] i = 3 -> KEY_START_1
          [] i = 4 -> KEY_UP_1
          [] i = 5 -> KEY_DOWN_1
          [] i = 6 -> KEY_LEFT_1
          [] i = 7 -> KEY_RIGHT_1]

NewNESMemory == [ram |-> EmptyMem, currentKeyRead |-> 0]

\* The result of a bus access: the bus, the PPU, the mapper and the pressed
\* keys after it; the byte read (or the extra cycles of a write); and whether
\* the access panicked.
BusResult(b, p, m, keys, val, panic) ==
    [mem |-> b, ppu |-> p, cart |-> m, pressed |-> keys, val |-> val, panic |-> panic]

\* NESMemory.Read.  `keys` is what the InputProvider holds once it has drained
\* the event queue, should this read consult it.
Read(b, p, m, old, keys, addr) ==
    IF addr < \h2000
    THEN BusResult(b, p, m, old, Rd(b.ram, And(addr, \h7FF)), FALSE)
    ELSE IF addr < \h4000
    THEN LET fromPPU(r) == BusResult(b, r.ppu, r.cart, old, r.val, r.panic)
         IN  fromPPU(ReadRegister(p, m, addr))
    ELSE IF addr < \h4018
    THEN IF addr # \h4016
         THEN BusResult(b, p, m, old, 0, FALSE)
         ELSE IF b.currentKeyRead >= 8
         THEN BusResult(b, p, m, old, 1, FALSE)
         ELSE BusResult([b EXCEPT !.currentKeyRead = @ + 1], p, m, keys,
                        IF IsKeyPressed(keys, keyReadOrder[b.currentKeyRead])
                        THEN 1 ELSE 0,
                        FALSE)
    ELSE LET fromMapper(r) == BusResult(b, p, m, old, r.val, r.panic)
         IN  fromMapper(ReadCPU(m, addr))

\* NESMemory.Write, case 0x4014: mem.ram[start:end] panics when the slice
\* leaves the 0x800-byte array.
WriteDMA(b, p, m, keys, val) ==
    LET start == \h100 * val
        end == start + 256
    IN  IF end > RamSize
        THEN BusResult(b, p, m, keys, 0, TRUE)
        ELSE LET copied(d) == BusResult(b, d.ppu, m, keys, 513, d.panic)
             IN  copied(SpriteDMA(p, [i \in 0 .. 255 |-> Rd(b.ram, start + i)]))

\* NESMemory.Write
Write(b, p, m, keys, addr, val) ==
    IF addr < \h2000
    THEN BusResult([b EXCEPT !.ram = Wr(@, And(addr, \h7FF), val)], p, m, keys, 0, FALSE)
    ELSE IF addr < \h4000
    THEN LET fromPPU(r) == BusResult(b, r.ppu, r.cart, keys, 0, r.panic)
         IN  fromPPU(WriteRegister(p, m, addr, val))
    ELSE IF addr < \h4018
    THEN IF addr >= \h4000 /\ addr <= \h4013
         THEN BusResult(b, p, m, keys, 0, FALSE)
         ELSE IF addr = \h4014
         THEN WriteDMA(b, p, m, keys, val)
         ELSE IF addr = \h4015
         THEN BusResult(b, p, m, keys, 0, FALSE)
         ELSE IF addr = \h4016
         THEN IF And(val, 1) = 0
              THEN BusResult([b EXCEPT !.currentKeyRead = 0], p, m, keys, 0, FALSE)
              ELSE BusResult(b, p, m, keys, 0, FALSE)
         ELSE BusResult(b, p, m, keys, 0, FALSE)
    ELSE LET fromMapper(r) == BusResult(b, p, r.cart, keys, r.cycles, r.panic)
         IN  fromMapper(WriteCPU(m, addr, val))

-----------------------------------------------------------------------------
(* package cpu: the 6502 interpreter.                                       *)
(*                                                                         *)
(* The CPU reaches everything else through its MemoryInterface, so its     *)
(* methods work on the machine w: the CPU together with the bus, the PPU,  *)
(* the mapper, the pressed keys and the panic flag.  `keys` is what the    *)
(* InputProvider holds should the instruction read the controller.         *)

Machine(c, b, p, m, keys, panic) ==
    [cpu |-> c, mem |-> b, ppu |-> p, cart |-> m, pressed |-> keys, panic |-> panic]

\* cpu.mem.Read(addr): the machine after the read and the byte read
MemRead(w, keys, addr) ==
    LET after(r) ==
            [w   |-> [w EXCEPT !.mem = r.mem, !.ppu = r.ppu, !.cart = r.cart,
                               !.pressed = r.pressed, !.panic = @ \/ r.panic],
             val |-> r.val]
    IN  after(Read(w.mem, w.ppu, w.cart, w.pressed, keys, addr))

\* cpu.mem.Write(addr, val): the machine after the write and the extra cycles
MemWrite(w, addr, val) ==
    LET after(r) ==
            [w      |-> [w EXCEPT !.mem = r.mem, !.ppu = r.ppu, !.cart = r.cart,
                                  !.panic = @ \/ r.panic],
             cycles |-> r.val]
    IN  after(Write(w.mem, w.ppu, w.cart, w.pressed, addr, val))

\* Flags of the status register
C == \h01
Z == \h02
I == \h04
B == \h10
ALWAYS_ON == \h20
V == \h40
N == \h80

vectorReset == \hFFFC
vectorNMI == \hFFFA
vectorIRQBRK == \hFFFE

\* Addressing modes
BAD == 0
IMP == 1
IMM == 2
ZP == 3
ZPX == 4
ZPY == 5
ABS == 6
ABSX == 7
ABSY == 8
IND == 9
INDY == 10
INDX == 11

isSet(c, flag) == And(c.st, flag) = flag

set(c, flag, on) ==
    IF on THEN [c EXCEPT !.st = Or(@, flag)] ELSE [c EXCEPT !.st = And(@, 255 - flag)]

setZN(c, result) == set(set(c, Z, result = 0), N, And(result, \h80) = \h80)

\* NewCPU: the hardware state at power-on; PC comes from the reset vector.
NewCPU(b, p, m, keys) ==
    LET w0 == Machine([ac |-> 0, xr |-> 0, yr |-> 0, st |-> \h34, sp |-> \hFD,
                       pc |-> 0, opRawAddr |-> 0, opAddr |-> 0, clockCycles |-> 0],
                      b, p, m, keys, FALSE)
        loaded(lo, hi) == [hi.w EXCEPT !.cpu.pc = Or(lo.val, hi.val * 256)]
        high(lo) == loaded(lo, MemRead(lo.w, keys, vectorReset + 1))
    IN  high(MemRead(w0, keys, vectorReset))

\* Reset: note that the code ORs the I mask into sp, not into st.
Reset(w, keys) ==
    LET loaded(lo, hi) ==
            [hi.w EXCEPT !.cpu.pc = Or(lo.val, hi.val * 256),
                         !.cpu.sp = U8(Or(@, I) + 256 - 3),
                         !.cpu.opRawAddr = 0,
                         !.cpu.opAddr = 0,
                         !.cpu.clockCycles = 0]
        high(lo) == loaded(lo, MemRead(lo.w, keys, vectorReset + 1))
    IN  high(MemRead(w, keys, vectorReset))

\* push
push(w, value) ==
    LET stored(r) == [r.w EXCEPT !.cpu.clockCycles = @ + r.cycles,
                                 !.cpu.sp = U8(@ + 255)]
    IN  stored(MemWrite(w, \h100 + w.cpu.sp, value))

\* pop: the machine after the pop and the byte popped
pop(w, keys) ==
    LET sp1 == U8(w.cpu.sp + 1)
    IN  MemRead([w EXCEPT !.cpu.sp = sp1], keys, \h100 + sp1)

pushWordLowFirst(w, word) == push(push(w, And(\hFF, word)), And(\hFF, word \div 256))

pushWord(w, word) == push(push(w, And(\hFF, word \div 256)), And(\hFF, word))

popWord(w, keys) ==
    LET popped(lo, hi) == [w |-> hi.w, val |-> Or(lo.val, hi.val * 256)]
        high(lo) == popped(lo, pop(lo.w, keys))
    IN  high(pop(w, keys))

\* NMI: the machine after the interrupt sequence and the cycles returned
NMIStatusFirst(w, keys) ==
    LET pushed == pushWord(push([w EXCEPT !.cpu.clockCycles = 0], w.cpu.st), w.cpu.pc)
        loaded(lo, hi) ==
            [w |-> [hi.w EXCEPT !.cpu.pc = Or(lo.val, hi.val * 256)], cycles |-> 7]
        high(lo) == loaded(lo, MemRead(lo.w, keys, vectorNMI + 1))
    IN  high(MemRead([pushed EXCEPT !.cpu = set(@, I, TRUE)], keys, vectorNMI))

NMI(w, keys) ==
    LET pushed == push(pushWord([w EXCEPT !.cpu.clockCycles = 0], w.cpu.pc), w.cpu.st)
        loaded(lo, hi) ==
            [w |-> [hi.w EXCEPT !.cpu.pc = Or(lo.val, hi.val * 256)], cycles |-> 7]
        high(lo) == loaded(lo, MemRead(lo.w, keys, vectorNMI + 1))
    IN  high(MemRead([pushed EXCEPT !.cpu = set(@, I, TRUE)], keys, vectorNMI))

\* readPC8 and readPC16
readPC8(w, keys) ==
    LET fetched(r) == [w |-> [r.w EXCEPT !.cpu.pc = U16(@ + 1)], val |-> r.val]
    IN  fetched(MemRead(w, keys, w.cpu.pc))

readPC16(w, keys) ==
    LET fetched(lo, hi) == [w |-> hi.w, val |-> Or(lo.val, hi.val * 256)]
        high(lo) == fetched(lo, readPC8(lo.w, keys))
    IN  high(readPC8(w, keys))

\* readOpData
readOpData(w, keys) == MemRead(w, keys, w.cpu.opAddr)

\* The addrXXX methods.  Each fills opRawAddr and opAddr; the indexed modes
\* add the opcode's extraCycles when the index crosses a page.
addrIMM(w) == [w EXCEPT !.cpu.opAddr = w.cpu.pc, !.cpu.pc = U16(@ + 1)]

addrZP(w, keys) ==
    LET operand(r) == [r.w EXCEPT !.cpu.opRawAddr = r.val, !.cpu.opAddr = r.val]
    IN  operand(readPC8(w, keys))

addrZPIndexed(w, keys, index) ==
    LET operand(r) == [r.w EXCEPT !.cpu.opRawAddr = r.val,
                                  !.cpu.opAddr = And(r.val + index, \hFF)]
    IN  operand(readPC8(w, keys))

addrABS(w, keys) ==
    LET operand(r) == [r.w EXCEPT !.cpu.opRawAddr = r.val, !.cpu.opAddr = r.val]
    IN  operand(readPC16(w, keys))

addrINDCarries(w, keys) ==
    LET operand(tmpAddr, lo, hi) ==
            [hi.w EXCEPT !.cpu.opRawAddr = tmpAddr,
                         !.cpu.opAddr = Or(lo.val, hi.val * 256)]
        high(tmpAddr, lo) == operand(tmpAddr, lo, MemRead(lo.w, keys, U16(tmpAddr + 1)))
        low(r) == high(r.val, MemRead(r.w, keys, r.val))
    IN  low(readPC16(w, keys))

addrIND(w, keys) ==
    LET hiAddr(tmpAddr) == IF And(tmpAddr, \hFF) = \hFF THEN And(tmpAddr, \hFF00)
                           ELSE U16(tmpAddr + 1)
        operand(tmpAddr, lo, hi) ==
            [hi.w EXCEPT !.cpu.opRawAddr = tmpAddr,
                         !.cpu.opAddr = Or(lo.val, hi.val * 256)]
        high(tmpAddr, lo) == operand(tmpAddr, lo, MemRead(lo.w, keys, hiAddr(tmpAddr)))
        low(r) == high(r.val, MemRead(r.w, keys, r.val))
    IN  low(readPC16(w, keys))

addrABSIndexed(w, keys, index, extraCycles) ==
    LET operand(r, a) ==
            [r.w EXCEPT !.cpu.opRawAddr = r.val,
                        !.cpu.opAddr = a,
                        !.cpu.clockCycles =
                            IF And(r.val, \hFF00) # And(a, \hFF00)
                            THEN @ + extraCycles ELSE @]
        indexed(r) == operand(r, U16(r.val + index))
    IN  indexed(readPC16(w, keys))

addrINDXNoWrap(w, keys) ==
    LET operand(r, lo, hi) ==
            [hi.w EXCEPT !.cpu.opRawAddr = r.val,
                         !.cpu.opAddr = Or(lo.val, hi.val * 256)]
        high(r, zpaddr, lo) == operand(r, lo, MemRead(lo.w, keys, zpaddr + 1))
        low(r, zpaddr) == high(r, zpaddr, MemRead(r.w, keys, zpaddr))
        pointer(r) == low(r, And(\hFF, r.val + r.w.cpu.xr))
    IN  pointer(readPC8(w, keys))

addrINDX(w, keys) ==
    LET operand(r, lo, hi) ==
            [hi.w EXCEPT !.cpu.opRawAddr = r.val,
                         !.cpu.opAddr = Or(lo.val, hi.val * 256)]
        high(r, zpaddr, lo) ==
            operand(r, lo, MemRead(lo.w, keys, And(\hFF, zpaddr + 1)))
        low(r, zpaddr) == high(r, zpaddr, MemRead(r.w, keys, zpaddr))
        pointer(r) == low(r, And(\hFF, r.val + r.w.cpu.xr))
    IN  pointer(readPC8(w, keys))

addrINDYFromOperand(w, keys, extraCycles) ==
    LET operand(r, hi, addrPreYRegister, a) ==
            [hi.w EXCEPT !.cpu.opRawAddr = r.val,
                         !.cpu.opAddr = a,
                         !.cpu.clockCycles =
                            IF And(a, \hFF00) # And(r.val, \hFF00)
                            THEN @ + extraCycles ELSE @]
        indexed(r, hi, addrPreYRegister) ==
            operand(r, hi, addrPreYRegister, U16(addrPreYRegister + hi.w.cpu.yr))
        pointer(r, lo, hi) == indexed(r, hi, Or(lo.val, hi.val * 256))
        high(r, lo) == pointer(r, lo, MemRead(lo.w, keys, And(\hFF, r.val + 1)))
        low(r) == high(r, MemRead(r.w, keys, r.val))
    IN  low(readPC8(w, keys))

addrINDY(w, keys, extraCycles) ==
    LET operand(r, hi, addrPreYRegister, a) ==
            [hi.w EXCEPT !.cpu.opRawAddr = r.val,
                         !.cpu.opAddr = a,
                         !.cpu.clockCycles =
                            IF And(a, \hFF00) # And(addrPreYRegister, \hFF00)
                            THEN @ + extraCycles ELSE @]
        indexed(r, hi, addrPreYRegister) ==
            operand(r, hi, addrPreYRegister, U16(addrPreYRegister + hi.w.cpu.yr))
        pointer(r, lo, hi) == indexed(r, hi, Or(lo.val, hi.val * 256))
        high(r, lo) == pointer(r, lo, MemRead(lo.w, keys, And(\hFF, r.val + 1)))
        low(r) == high(r, MemRead(r.w, keys, r.val))
    IN  low(readPC8(w, keys))

readAddressOfOperand(w, keys, op) ==
    CASE op.addressing = IMM  -> addrIMM(w)
      [] op.addressing = ZP   -> addrZP(w, keys)
      [] op.addressing = ZPX  -> addrZPIndexed(w, keys, w.cpu.xr)
      [] op.addressing = ZPY  -> addrZPIndexed(w, keys, w.cpu.yr)
      [] op.addressing = ABS  -> addrABS(w, keys)
      [] op.addressing = ABSX -> addrABSIndexed(w, keys, w.cpu.xr, op.extraCycles)
      [] op.addressing = ABSY -> addrABSIndexed(w, keys, w.cpu.yr, op.extraCycles)
      [] op.addressing = IND  -> addrIND(w, keys)
      [] op.addressing = INDY -> addrINDY(w, keys, op.extraCycles)
      [] op.addressing = INDX -> addrINDX(w, keys)
      [] OTHER                -> w

\* An OpcodeEntry
OpcodeEntry(exec, cycles, extraCycles, addressing) ==
    [exec |-> exec, cycles |-> cycles, extraCycles |-> extraCycles,
     addressing |-> addressing]

\* opTable: the rows of the table for the opcodes the checked programs use.
\* An opcode outside the domain stands for one the programs never execute.
opTable ==
    (\h69 :> OpcodeEntry("opAdc", 2, 0, IMM))  @@
    (\h00 :> OpcodeEntry("opBrk", 7, 0, IMP))  @@
    (\h18 :> OpcodeEntry("opClc", 2, 0, IMP))  @@
    (\hA1 :> OpcodeEntry("opLda", 6, 0, INDX)) @@
    (\hB1 :> OpcodeEntry("opLda", 5, 1, INDY)) @@
    (\hB5 :> OpcodeEntry("opLda", 4, 0, ZPX))  @@
    (\hB6 :> OpcodeEntry("opLdx", 4, 0, ZPY))  @@
    (\hA0 :> OpcodeEntry("opLdy", 2, 0, IMM))  @@
    (\h48 :> OpcodeEntry("opPha", 3, 0, IMP))  @@
    (\h08 :> OpcodeEntry("opPhp", 3, 0, IMP))  @@
    (\h28 :> OpcodeEntry("opPlp", 4, 0, IMP))  @@
    (\hE9 :> OpcodeEntry("opSbc", 2, 0, IMM))  @@
    (\h38 :> OpcodeEntry("opSec", 2, 0, IMP))  @@
    (\h9A :> OpcodeEntry("opTxs", 2, 0, IMP))  @@
    (\h2C :> OpcodeEntry("opBit", 4, 0, ABS))  @@
    (\h10 :> OpcodeEntry("opBpl", 2, 0, IMM))  @@
    (\h50 :> OpcodeEntry("opBvc", 2, 0, IMM))  @@
    (\hE8 :> OpcodeEntry("opInx", 2, 0, IMP))  @@
    (\h4C :> OpcodeEntry("opJmp", 3, 0, ABS))  @@
    (\h6C :> OpcodeEntry("opJmp", 5, 0, IND))  @@
    (\hA9 :> OpcodeEntry("opLda", 2, 0, IMM))  @@
    (\hA5 :> OpcodeEntry("opLda", 3, 0, ZP))   @@
    (\hAD :> OpcodeEntry("opLda", 4, 0, ABS))  @@
    (\hBD :> OpcodeEntry("opLda", 4, 1, ABSX)) @@
    (\hA2 :> OpcodeEntry("opLdx", 2, 0, IMM))  @@
    (\hEA :> OpcodeEntry("opNop", 2, 0, IMP))  @@
    (\h40 :> OpcodeEntry("opRti", 6, 0, IMP))  @@
    (\h85 :> OpcodeEntry("opSta", 3, 0, ZP))   @@
    (\h8D :> OpcodeEntry("opSta", 4, 0, ABS))  @@
    (\h9D :> OpcodeEntry("opSta", 5, 0, ABSX)) @@
    (\h8E :> OpcodeEntry("opStx", 4, 0, ABS))  @@
    (\hB9 :> OpcodeEntry("opLda", 4, 1, ABSY)) @@
    (\h99 :> OpcodeEntry("opSta", 5, 0, ABSY)) @@
    (\h91 :> OpcodeEntry("opSta", 6, 0, INDY)) @@
    (\h20 :> OpcodeEntry("opJsr", 6, 0, ABS))  @@
    (\h60 :> OpcodeEntry("opRts", 6, 0, IMP))

\* genericBranch
genericBranch(w, keys, should) ==
    IF ~should THEN w
    ELSE LET offset(data) == IF And(\h80, data) = \h80 THEN Or(data, \hFF00)
                              ELSE data
             jump(r, newPC) ==
                 [r.w EXCEPT !.cpu.clockCycles =
                                IF And(newPC, \hFF00) # And(r.w.cpu.pc, \hFF00)
                                THEN @ + 2 ELSE @ + 1,
                             !.cpu.pc = newPC]
             taken(r) == jump(r, U16(r.w.cpu.pc + offset(r.val)))
         IN  taken(readOpData(w, keys))

\* opAdc: the sum is a uint16; V and C are taken from it before A is stored.
opAdcIgnoresCarry(w, keys) ==
    LET added(w1, a, opData, result) ==
            [w1 EXCEPT !.cpu =
                setZN([set(set(@, V, And(And(Xor(a, result), Xor(opData, result)),
                                         \h80) # 0),
                           C, result > \hFF)
                         EXCEPT !.ac = And(result, \hFF)],
                      And(result, \hFF))]
        fetched(r) == added(r.w, r.w.cpu.ac, r.val, U16(r.w.cpu.ac + r.val))
    IN  fetched(readOpData(w, keys))

opAdc(w, keys) ==
    LET added(w1, a, opData, result) ==
            [w1 EXCEPT !.cpu =
                setZN([set(set(@, V, And(And(Xor(a, result), Xor(opData, result)),
                                         \h80) # 0),
                           C, result > \hFF)
                         EXCEPT !.ac = And(result, \hFF)],
                      And(result, \hFF))]
        fetched(r) ==
            added(r.w, r.w.cpu.ac, r.val,
                  U16(r.w.cpu.ac + r.val + (IF isSet(r.w.cpu, C) THEN 1 ELSE 0)))
    IN  fetched(readOpData(w, keys))

opBit(w, keys) ==
    LET tested(w1, data) ==
            [w1 EXCEPT !.cpu = set(set(set(@, Z, And(data, @.ac) = 0),
                                       V, And(data, \h40) = \h40),
                                   N, And(data, \h80) = \h80)]
        fetched(r) == tested(r.w, r.val)
    IN  fetched(readOpData(w, keys))

opBpl(w, keys) == genericBranch(w, keys, ~isSet(w.cpu, N))

\* opBrk: B is set in the register before the status is pushed.
opBrk(w, keys) ==
    LET loaded(lo, hi) == [hi.w EXCEPT !.cpu.pc = Or(lo.val, hi.val * 256)]
        high(lo) == loaded(lo, MemRead(lo.w, keys, vectorIRQBRK + 1))
        masked(w1) == high(MemRead([w1 EXCEPT !.cpu = set(@, I, TRUE)], keys,
                                   vectorIRQBRK))
        pushed(w1) == masked(push(w1, Or(ALWAYS_ON, w1.cpu.st)))
        flagged(w1) == pushed([w1 EXCEPT !.cpu = set(@, B, TRUE)])
    IN  flagged(pushWord(w, U16(w.cpu.pc + 1)))

opBvc(w, keys) == genericBranch(w, keys, ~isSet(w.cpu, V))

opClc(w) == [w EXCEPT !.cpu = set(@, C, FALSE)]

opInx(w) ==
    LET x == U8(w.cpu.xr + 1)
    IN  [w EXCEPT !.cpu = setZN([@ EXCEPT !.xr = x], x)]

opJmp(w) == [w EXCEPT !.cpu.pc = w.cpu.opAddr]

\* opJsr: the address pushed is that of the JSR's last byte.
opJsr(w) ==
    LET called(w1) == [w1 EXCEPT !.cpu.pc = w.cpu.opAddr]
    IN  called(pushWord(w, U16(w.cpu.pc + 65535)))

opLda(w, keys) ==
    LET loaded(r) == [r.w EXCEPT !.cpu = setZN([@ EXCEPT !.ac = r.val], r.val)]
    IN  loaded(readOpData(w, keys))

opLdx(w, keys) ==
    LET loaded(r) == [r.w EXCEPT !.cpu = setZN([@ EXCEPT !.xr = r.val], r.val)]
    IN  loaded(readOpData(w, keys))

opLdy(w, keys) ==
    LET loaded(r) == [r.w EXCEPT !.cpu = setZN([@ EXCEPT !.yr = r.val], r.val)]
    IN  loaded(readOpData(w, keys))

opPha(w) == push(w, w.cpu.ac)

opPhp(w) == push(w, Or(Or(ALWAYS_ON, w.cpu.st), B))

\* opPlp
opPlpRaw(w, keys) ==
    LET pulled(r) == [r.w EXCEPT !.cpu.st = And(r.val, 255 - B)]
    IN  pulled(pop(w, keys))

opPlp(w, keys) ==
    LET pulled(r) == [r.w EXCEPT !.cpu.st = Or(ALWAYS_ON, And(r.val, 255 - B))]
    IN  pulled(pop(w, keys))

opRti(w, keys) ==
    LET returned(st, pc) ==
            [pc.w EXCEPT !.cpu.st = Or(ALWAYS_ON, And(st.val, 255 - B)),
                         !.cpu.pc = pc.val]
        status(st) == returned(st, popWord(st.w, keys))
    IN  status(pop(w, keys))

\* opSbc: the difference is a uint16, so a borrow shows as result >= 0x100.
opSbcIgnoresCarry(w, keys) ==
    LET subtracted(w1, a, opData, result) ==
            [w1 EXCEPT !.cpu =
                setZN([set(set(@, V, And(And(Xor(a, result), Xor(a, opData)),
                                         \h80) # 0),
                           C, result < \h100)
                         EXCEPT !.ac = And(result, \hFF)],
                      And(result, \hFF))]
        fetched(r) == subtracted(r.w, r.w.cpu.ac, r.val,
                                 U16(65536 + r.w.cpu.ac - r.val))
    IN  fetched(readOpData(w, keys))

opSbc(w, keys) ==
    LET subtracted(w1, a, opData, result) ==
            [w1 EXCEPT !.cpu =
                setZN([set(set(@, V, And(And(Xor(a, result), Xor(a, opData)),
                                         \h80) # 0),
                           C, result < \h100)
                         EXCEPT !.ac = And(result, \hFF)],
                      And(result, \hFF))]
        fetched(r) ==
            subtracted(r.w, r.w.cpu.ac, r.val,
                       U16(65536 + r.w.cpu.ac - r.val
                           - (IF isSet(r.w.cpu, C) THEN 0 ELSE 1)))
    IN  fetched(readOpData(w, keys))

\* opRts
opRts(w, keys) ==
    LET returned(r) == [r.w EXCEPT !.cpu.pc = U16(r.val + 1)]
    IN  returned(popWord(w, keys))

opSec(w) == [w EXCEPT !.cpu = set(@, C, TRUE)]

opTxs(w) == [w EXCEPT !.cpu.sp = w.cpu.xr]

\* opSta and opStx: the store's extra cycles are added to clockCycles.
opStore(w, value) ==
    LET stored(r) == [r.w EXCEPT !.cpu.clockCycles = @ + r.cycles]
    IN  stored(MemWrite(w, w.cpu.opAddr, value))

\* op.exec(cpu)
Exec(w, keys, op) ==
    CASE op.exec = "opAdc" -> opAdc(w, keys)
      [] op.exec = "opBrk" -> opBrk(w, keys)
      [] op.exec = "opClc" -> opClc(w)
      [] op.exec = "opLdy" -> opLdy(w, keys)
      [] op.exec = "opPha" -> opPha(w)
      [] op.exec = "opPhp" -> opPhp(w)
      [] op.exec = "opPlp" -> opPlp(w, keys)
      [] op.exec = "opSbc" -> opSbc(w, keys)
      [] op.exec = "opSec" -> opSec(w)
      [] op.exec = "opTxs" -> opTxs(w)
      [] op.exec = "opBit" -> opBit(w, keys)
      [] op.exec = "opBpl" -> opBpl(w, keys)
      [] op.exec = "opBvc" -> opBvc(w, keys)
      [] op.exec = "opInx" -> opInx(w)
      [] op.exec = "opJmp" -> opJmp(w)
      [] op.exec = "opLda" -> opLda(w, keys)
      [] op.exec = "opLdx" -> opLdx(w, keys)
      [] op.exec = "opNop" -> w
      [] op.exec = "opRti" -> opRti(w, keys)
      [] op.exec = "opSta" -> opStore(w, w.cpu.ac)
      [] op.exec = "opStx" -> opStore(w, w.cpu.xr)
      [] op.exec = "opJsr" -> opJsr(w)
      [] op.exec = "opRts" -> opRts(w, keys)

\* Interpret: the machine after one instruction and the cycles returned.
\* An opcode with no table entry panics.
Interpret(w, keys) ==
    LET executed(e) == [w |-> e, cycles |-> e.cpu.clockCycles]
        decoded(a, op) ==
            executed(Exec([a EXCEPT !.cpu.clockCycles = @ + op.cycles], keys, op))
        known(f, op) == decoded(readAddressOfOperand(f.w, keys, op), op)
        fetched(f) ==
            IF f.val \notin DOMAIN opTable
            THEN [w |-> [f.w EXCEPT !.panic = TRUE], cycles |-> 0]
            ELSE known(f, opTable[f.val])
    IN  fetched(readPC8([w EXCEPT !.cpu.clockCycles = 0], keys))

-----------------------------------------------------------------------------
(* Cartridge images and programs the model is run on                        *)

\* A Go byte array from the list of its bytes, first byte at offset `at`.
Bytes(at, bs) ==
    [x \in {at + k - 1 : k \in {j \in 1 .. Len(bs) : bs[j] # 0}} |-> bs[x - at + 1]]

\* A 16 KiB PRG bank holding `code` at its start (CPU 0x8000 and, mirrored by
\* mapper 0, 0xC000), with the NMI, reset and IRQ vectors in its last six
\* bytes: reset at 0x8000, NMI and IRQ/BRK at 0x8000 + nmiAt.
PrgBank(code, nmiAt) ==
    Bytes(0, code) @@ Bytes(\h3FFA, <<nmiAt, \h80, \h00, \h80, nmiAt, \h80>>)

\* An 8 KiB CHR-ROM bank with a few non-zero tile rows.
ChrBank ==
    Bytes(\h0000, <<\h11, \h22>>) @@ Bytes(\h0010, <<\hFF>>) @@ Bytes(\h0018, <<\h0F>>)
    @@ Bytes(\h1000, <<\h44>>) @@ Bytes(\h1FFF, <<\h88>>)

NesFile(mirroring, prg, chr) ==
    [Mapper |-> 0, Mirroring |-> mirroring, PrgRom |-> prg, ChrRom |-> chr]

NoBanks == [b \in {} |-> EmptyMem]
OneBank(bank) == [b \in {0} |-> bank]

-----------------------------------------------------------------------------
(* Calls and steps                                                          *)

NoOp == [kind |-> "none", addr |-> 0, val |-> 0]
Op(kind, addr, val) == [kind |-> kind, addr |-> addr, val |-> val]
R(addr) == Op("read", addr, 0)
W(addr, val) == Op("write", addr, val)

\* One call on the bus or, from the frame loop, on the PPU: op applied to the
\* objects b, p, m; its result has the shape of a bus access's.
Call(b, p, m, old, keys, op) ==
    CASE op.kind = "read"  -> Read(b, p, m, old, keys, op.addr)
      [] op.kind = "write" -> Write(b, p, m, old, op.addr, op.val)
      [] op.kind = "EnterVBlankShouldNMI" ->
            LET entered(r) ==
                    BusResult(b, r.ppu, m, old, IF r.shouldNMI THEN 1 ELSE 0, FALSE)
            IN  entered(EnterVBlankShouldNMI(p))
      [] op.kind = "ExitVBlank" -> BusResult(b, ExitVBlank(p), m, old, 0, FALSE)
      [] op.kind = "RenderScanLine" ->
            LET rendered(r) == BusResult(b, r.ppu, m, old, 0, r.panic)
            IN  rendered(RenderScanLine(p, m))

\* The calls of a script, in order, from the result r of the calls before.
RECURSIVE RunScript(_, _, _, _)
RunScript(r, script, lo, hi) ==
    IF hi < lo THEN r
    ELSE IF hi = lo
    THEN Call(r.mem, r.ppu, r.cart, r.pressed, r.pressed, script[lo])
    ELSE LET mid == (lo + hi) \div 2
             left == RunScript(r, script, lo, mid)
         IN  IF Done(left) THEN RunScript(left, script, mid + 1, hi) ELSE left

\* The machine after power-on (the constructors main() calls) and the calls
\* of `script`.
AfterSetup(nesFile, script) ==
    RunScript(BusResult(NewNESMemory, NewPPU, GetMapper(nesFile), {}, 0, FALSE),
              script, 1, Len(script))

Times(n, op) == [k \in 1 .. n |-> op]

Snapshot ==
    [ppu |-> ppu, mem |-> mem, cart |-> cartMapper, strobe |-> strobe,
     cpu |-> cpu, loop |-> loop]

\* What a finished call leaves behind.  A panic ends the process: nothing
\* the call did is observable afterwards.
Finish(r, op) ==
    /\ panicked' = r.panic
    /\ ppu' = IF r.panic THEN ppu ELSE r.ppu
    /\ cartMapper' = IF r.panic THEN cartMapper ELSE r.cart
    /\ mem' = IF r.panic THEN mem ELSE r.mem
    /\ pressed' = IF r.panic THEN pressed ELSE r.pressed
    /\ ret' = IF r.panic THEN 0 ELSE r.val
    /\ lastOp' = op
    /\ pre' = Snapshot
    /\ strobe' = IF op.kind = "write" /\ op.addr = \h4016 /\ ~r.panic
                 THEN And(op.val, 1) ELSE strobe
    /\ reads' = IF r.panic \/ op.addr # \h4016 THEN reads
                ELSE IF op.kind = "read" THEN reads + 1
                ELSE IF op.kind = "write" /\ And(op.val, 1) = 0 THEN 0
                ELSE reads
    /\ UNCHANGED nesImage

\* One call made on the running machine.
Step(op, keys) ==
    /\ ~panicked
    /\ \E r \in {Call(mem, ppu, cartMapper, pressed, keys, op)} : Finish(r, op)
    /\ UNCHANGED <<cpu, loop>>

\* Whether a step records the call before it.
Remember == prevOp' = lastOp /\ prevPre' = pre
Forget == UNCHANGED <<prevOp, prevPre>>

-----------------------------------------------------------------------------
(* Spec: the PPU register file under CPU accesses at 0x2000-0x3FFF, sprite  *)
(* DMA and the frame loop's VBlank and RenderScanLine calls.  A run starts  *)
(* after power-on and one of the setup sequences below, and then makes up   *)
(* to MaxOps further calls.                                                 *)

MaxOps == 2

RegReads == {PPUCTRL, PPUSTATUS, OAMDATA, PPUDATA, \h3FFA}

RegWrites ==
    { W(PPUCTRL, \h04), W(PPUCTRL, \h83), W(PPUMASK, \h1E), W(PPUSTATUS, \hFF),
      W(OAMADDR, \hFF), W(OAMDATA, \hA5), W(PPUSCROLL, \h7D), W(\h2A0D, \hFF),
      W(PPUADDR, \hFF), W(PPUADDR, \h10), W(PPUDATA, \hC5), W(\h3FFF, \h3F) }

Setups ==
    LET scrolled == << W(PPUSCROLL, \hFF), W(PPUSCROLL, \hFF), W(PPUCTRL, \h83),
                       Op("EnterVBlankShouldNMI", 0, 0) >>
        high == << W(PPUCTRL, \h04), W(PPUADDR, \h3F), W(PPUADDR, \hE0) >>
                \o Times(1536, R(PPUDATA))
    IN  { << >>,
          scrolled,
          scrolled \o << W(PPUSCROLL, \h00) >>,
          << W(PPUADDR, \h3F), W(PPUADDR, \h00) >>,
          << W(PPUADDR, \h3F), W(PPUADDR, \h0F), W(PPUDATA, \h2A) >>,
          << W(PPUADDR, \h23), W(PPUADDR, \hFF), W(PPUDATA, \h77) >>,
          << W(PPUADDR, \h3E), W(PPUADDR, \hFF) >>,
          high,
          high \o << W(PPUCTRL, \h00) >> \o Times(31, R(PPUDATA)),
          << W(PPUADDR, \h3F), W(PPUADDR, \hFF), R(PPUDATA) >> }

Carts == { NesFile(Horizontal, OneBank(PrgBank(<<\hEA>>, 0)), OneBank(ChrBank)),
           NesFile(Vertical, OneBank(PrgBank(<<\hEA>>, 0)), NoBanks) }

\* main() about to enter its render loop for the first time.  The fields
\* nmis, nmiEnabledAt241 and interprets are observers: the NMI() calls made
\* in the current frame, PPUCTRL bit 7 as it was when the frame reached
\* scanline 241, and the Interpret() calls made on the current scanline.
LoopTop ==
    [pc |-> "top", scanline |-> 0, cycles |-> 0, frame |-> 0, resets |-> 0,
     nmis |-> 0, nmiEnabledAt241 |-> "unset", interprets |-> 0]

\* The state a run starts in: the machine r with its CPU constructed, no call
\* observed yet.
Start(r) ==
    LET snap(c) == [ppu |-> r.ppu, mem |-> r.mem, cart |-> r.cart, strobe |-> 0,
                    cpu |-> c, loop |-> LoopTop]
        started(c, s) ==
            /\ cpu = c
            /\ pre = s
            /\ prevPre = s
        constructed(c) == started(c, snap(c))
    IN  /\ constructed(NewCPU(r.mem, r.ppu, r.cart, r.pressed).cpu)
        /\ ppu = r.ppu
        /\ cartMapper = r.cart
        /\ mem = r.mem
        /\ pressed = r.pressed
        /\ loop = LoopTop
        /\ panicked = FALSE
        /\ lastOp = NoOp
        /\ ret = 0
        /\ prevOp = NoOp
        /\ strobe = 0
        /\ reads = 0
        /\ nOps = 0

\* main() from its first line: the image read, the machine built from it.
PowerOn(file, script) ==
    /\ nesImage = file
    /\ Start(AfterSetup(file, script))

Init ==
    \E nesFile \in Carts : \E script \in Setups : PowerOn(nesFile, script)

CpuRead(addr) ==
    /\ nOps < MaxOps
    /\ Step(R(addr), pressed)
    /\ Remember
    /\ nOps' = nOps + 1

CpuWrite(op) ==
    /\ nOps < MaxOps
    /\ Step(op, pressed)
    /\ Remember
    /\ nOps' = nOps + 1

VBlankEnter ==
    /\ nOps < MaxOps
    /\ Step(Op("EnterVBlankShouldNMI", 0, 0), pressed)
    /\ Remember
    /\ nOps' = nOps + 1

VBlankExit ==
    /\ nOps < MaxOps
    /\ Step(Op("ExitVBlank", 0, 0), pressed)
    /\ Remember
    /\ nOps' = nOps + 1

\* A write of 0x02 to 0x4014: SpriteDMA from RAM page 2.
SpriteDmaWrite ==
    /\ nOps < MaxOps
    /\ Step(W(\h4014, \h02), pressed)
    /\ Remember
    /\ nOps' = nOps + 1

\* ppu.RenderScanLine(), for one of the first lines of the frame.
ScanLine ==
    /\ nOps < MaxOps
    /\ Step(Op("RenderScanLine", 0, 0), pressed)
    /\ Remember
    /\ nOps' = nOps + 1

Next ==
    \/ \E addr \in RegReads : CpuRead(addr)
    \/ \E op \in RegWrites : CpuWrite(op)
    \/ VBlankEnter
    \/ VBlankExit
    \/ SpriteDmaWrite
    \/ ScanLine

Spec == Init /\ [][Next]_vars

-----------------------------------------------------------------------------
(* Properties of the PPU register file, checked under Spec                  *)

\* The register a CPU address in 0x2000-0x3FFF selects.
RegOf(op) == And(op.addr, \h2007)
Reads(op, reg) == op.kind = "read" /\ RegOf(op) = reg
Writes(op, reg) == op.kind = "write" /\ RegOf(op) = reg

\* C1: a read of PPUSTATUS, at any of its mirrors and whatever the latch was,
\* leaves the VBlank bit and the address latch cleared, and a PPUSCROLL write
\* that follows it directly is handled as the first write of the pair:
\* loopyX = v & 7, loopyT bits 0-4 = v >> 3, and the fine-Y and coarse-Y bits
\* of loopyT (mask 0x73E0) are unchanged.
C1_StatusReadResetsLatch ==
    /\ (~panicked /\ Reads(lastOp, PPUSTATUS)) =>
          /\ And(ppu.ppuStatus, \h80) = 0
          /\ ppu.addressLatch = 0
    /\ (~panicked /\ Writes(lastOp, PPUSCROLL) /\ Reads(prevOp, PPUSTATUS)) =>
          /\ ppu.loopyX = And(lastOp.val, 7)
          /\ And(ppu.loopyT, \h1F) = lastOp.val \div 8
          /\ And(ppu.loopyT, \h73E0) = And(pre.ppu.loopyT, \h73E0)

\* A PPUSCROLL write straight after a status read that found the latch set
\* and the VBlank bit set, with fine Y and coarse Y non-zero in loopyT.
C1_Witness ==
    /\ ~panicked
    /\ Writes(lastOp, PPUSCROLL) /\ lastOp.val = \h7D
    /\ Reads(prevOp, PPUSTATUS) /\ prevOp.addr = \h3FFA
    /\ prevPre.ppu.addressLatch = 1
    /\ And(prevPre.ppu.ppuStatus, \h80) = \h80
    /\ And(pre.ppu.loopyT, \h73E0) = \h73E0
    /\ ppu.loopyX = 5 /\ And(ppu.loopyT, \h1F) = \h0F

\* C2: PPUADDR writes alternate on the latch.  The first sets loopyT bits
\* 8-13 to val & 0x3F, clears bit 14 and leaves loopyV alone; the second sets
\* the low byte of loopyT to val and copies loopyT to loopyV.  Two consecutive
\* writes (hi, lo) from a cleared latch leave loopyV = ((hi & 0x3F) << 8) | lo
\* and the latch cleared.
C2_AddrWritePair ==
    /\ (~panicked /\ Writes(lastOp, PPUADDR) /\ pre.ppu.addressLatch = 0) =>
          /\ And(ppu.loopyT, \h3F00) = And(lastOp.val, \h3F) * 256
          /\ And(ppu.loopyT, \h4000) = 0
          /\ ppu.loopyV = pre.ppu.loopyV
          /\ ppu.addressLatch = 1
    /\ (~panicked /\ Writes(lastOp, PPUADDR) /\ pre.ppu.addressLatch # 0) =>
          /\ And(ppu.loopyT, \hFF) = lastOp.val
          /\ ppu.loopyV = ppu.loopyT
          /\ ppu.addressLatch = 0
    /\ (~panicked /\ Writes(lastOp, PPUADDR) /\ Writes(prevOp, PPUADDR)
           /\ prevPre.ppu.addressLatch = 0) =>
          /\ ppu.loopyV = And(prevOp.val, \h3F) * 256 + lastOp.val
          /\ ppu.addressLatch = 0

\* Two consecutive PPUADDR writes 0xFF, 0x10 from a cleared latch, with bit 14
\* of loopyT set beforehand and loopyV elsewhere.
C2_Witness ==
    /\ ~panicked
    /\ Writes(lastOp, PPUADDR) /\ lastOp.val = \h10
    /\ Writes(prevOp, PPUADDR) /\ prevOp.val = \hFF
    /\ prevPre.ppu.addressLatch = 0
    /\ And(prevPre.ppu.loopyT, \h4000) = \h4000
    /\ pre.ppu.loopyV # \h3F10
    /\ ppu.loopyV = \h3F10

\* C3: PPUSCROLL writes alternate on the latch.  The first sets loopyX to
\* val & 7 and loopyT bits 0-4 to val >> 3 and no other bit of loopyT; the
\* second sets loopyT bits 12-14 to val bits 0-2 and bits 5-9 to val bits 3-7
\* and leaves coarse X and loopyX alone; neither changes loopyV or bits 10-11
\* of loopyT.
C3_ScrollWritePair ==
    /\ (~panicked /\ Writes(lastOp, PPUSCROLL) /\ pre.ppu.addressLatch = 0) =>
          /\ ppu.loopyX = And(lastOp.val, 7)
          /\ And(ppu.loopyT, \h1F) = lastOp.val \div 8
          /\ And(ppu.loopyT, \hFFE0) = And(pre.ppu.loopyT, \hFFE0)
          /\ ppu.addressLatch = 1
    /\ (~panicked /\ Writes(lastOp, PPUSCROLL) /\ pre.ppu.addressLatch # 0) =>
          /\ And(ppu.loopyT, \h7000) = And(lastOp.val, 7) * \h1000
          /\ And(ppu.loopyT, \h03E0) = (lastOp.val \div 8) * 32
          /\ And(ppu.loopyT, \h1F) = And(pre.ppu.loopyT, \h1F)
          /\ ppu.loopyX = pre.ppu.loopyX
          /\ ppu.addressLatch = 0
    /\ (~panicked /\ Writes(lastOp, PPUSCROLL)) =>
          /\ ppu.loopyV = pre.ppu.loopyV
          /\ And(ppu.loopyT, \h0C00) = And(pre.ppu.loopyT, \h0C00)

\* A first write 0xFF and then a second write 0x7D, made through the mirror
\* at 0x2A0D and at 0x2005, with the nametable bits of loopyT set.
C3_Witness ==
    /\ ~panicked
    /\ Writes(prevOp, PPUSCROLL) /\ prevOp.val = \hFF /\ prevOp.addr = \h2A0D
    /\ prevPre.ppu.addressLatch = 0
    /\ Writes(lastOp, PPUSCROLL) /\ lastOp.val = \h7D
    /\ pre.ppu.addressLatch = 1 /\ pre.ppu.loopyX = 7
    /\ And(pre.ppu.loopyT, \h0C00) = \h0C00
    /\ And(pre.ppu.loopyT, \h73E0) # And(ppu.loopyT, \h73E0)

\* C4: pal[i] = pal[i ^ 0x10] for i in {0x00, 0x04, 0x08, 0x0C} in every
\* reachable state; a PPUDATA write to palette index i with i & 3 = 0 stores
\* the (6-bit) value at both i and i ^ 0x10, and one to an index with
\* i & 3 # 0 changes that entry only.
C4_PaletteMirror ==
    /\ \A i \in {\h00, \h04, \h08, \h0C} : ppu.pal[i] = ppu.pal[Xor(i, \h10)]
    /\ (~panicked /\ Writes(lastOp, PPUDATA) /\ pre.ppu.loopyV >= \h3F00) =>
          LET i == And(pre.ppu.loopyV, \h1F)
              v == And(lastOp.val, \h3F)
          IN  /\ ppu.pal[i] = v
              /\ And(i, 3) = 0 =>
                    /\ ppu.pal[Xor(i, \h10)] = v
                    /\ \A j \in 0 .. 31 :
                          j \notin {i, Xor(i, \h10)} => ppu.pal[j] = pre.ppu.pal[j]
              /\ And(i, 3) # 0 =>
                    \A j \in 0 .. 31 : j # i => ppu.pal[j] = pre.ppu.pal[j]

\* A non-zero colour written at index 0x10 and then one written at index
\* 0x11: the first shows at index 0x00 too, the second nowhere else.
C4_Witness ==
    /\ ~panicked
    /\ Writes(prevOp, PPUDATA) /\ prevPre.ppu.loopyV = \h3F10
    /\ Writes(lastOp, PPUDATA) /\ pre.ppu.loopyV = \h3F11
    /\ pre.ppu.pal[\h00] = \h05 /\ prevPre.ppu.pal[\h00] # \h05
    /\ ppu.pal[\h11] = \h3F /\ ppu.pal[\h01] = 0

C6_VRAMIncrement ==
    (~panicked /\ (Reads(lastOp, PPUDATA) \/ Writes(lastOp, PPUDATA))) =>
        /\ ppu.loopyV = (pre.ppu.loopyV
                           + (IF And(pre.ppu.ppuCtrl, 4) = 0 THEN 1 ELSE 32)) % 65536
        /\ ppu.loopyT = pre.ppu.loopyT
        /\ ppu.loopyX = pre.ppu.loopyX
        /\ ppu.addressLatch = pre.ppu.addressLatch

\* A palette write at 0xFFFF that wraps loopyV to 0 and then a pattern-table
\* read at 0 that moves it to 1, loopyT being non-zero throughout.
C6_Witness ==
    /\ ~panicked
    /\ Writes(prevOp, PPUDATA) /\ prevPre.ppu.loopyV = \hFFFF
    /\ And(prevPre.ppu.ppuCtrl, 4) = 0 /\ pre.ppu.loopyV = 0
    /\ Reads(lastOp, PPUDATA)
    /\ ppu.loopyV = 1 /\ ppu.loopyT # 0

\* C29: a CPU read of PPUCTRL, PPUMASK, OAMADDR, PPUSCROLL or PPUADDR, at
\* any mirror in 0x2000-0x3FFF, returns 0 and leaves the PPU as it was, and a
\* CPU write to PPUSTATUS leaves the PPU as it was.
C29_WriteOnlyRegisters ==
    /\ (~panicked /\ lastOp.kind = "read"
          /\ lastOp.addr >= \h2000 /\ lastOp.addr < \h4000
          /\ RegOf(lastOp) \in {PPUCTRL, PPUMASK, OAMADDR, PPUSCROLL, PPUADDR}) =>
              /\ ret = 0
              /\ ppu = pre.ppu
    /\ (~panicked /\ lastOp.kind = "write"
          /\ lastOp.addr >= \h2000 /\ lastOp.addr < \h4000
          /\ RegOf(lastOp) = PPUSTATUS) =>
              ppu = pre.ppu

\* The byte of the cartridge image behind a pattern-table address, for the
\* CHR-ROM bank currently mapped there.
ImageByte(addr) ==
    LET slot == IF addr < \h1000 THEN cartMapper.ppuPt0 ELSE cartMapper.ppuPt1
    IN  Rd(nesImage.ChrRom[slot.bank], slot.off + (addr % \h1000))

\* C36: on a cartridge with CHR-ROM every pattern-table read through the
\* mapper returns the byte of the cartridge image, whatever was written
\* through PPUDATA.
C36_ChrRomReadOnly ==
    (~panicked /\ cartMapper.ppuPtIsROM) =>
        \A addr \in {\h0000, \h0001, \h0010, \h1000, \h1010, \h1FFF} :
            ReadPPU(cartMapper, addr).val = ImageByte(addr)

\* C39: PPUSCROLL and PPUADDR share one latch.  From a cleared latch, a
\* PPUADDR write that directly follows a PPUSCROLL write is a second write: it
\* sets the low byte of loopyT, leaves its high byte alone, copies loopyT to
\* loopyV and clears the latch; a PPUSCROLL write that directly follows a
\* PPUADDR write is a second write too: it sets the fine Y and coarse Y bits
\* of loopyT, leaves loopyX and loopyV alone and clears the latch.  A write to
\* either register toggles the latch, a PPUSTATUS read clears it, and every
\* other call - register reads and writes, sprite DMA, EnterVBlankShouldNMI,
\* ExitVBlank, RenderScanLine - leaves it as it was.
C39_SharedLatch ==
    /\ (~panicked /\ Writes(lastOp, PPUADDR) /\ Writes(prevOp, PPUSCROLL)
           /\ prevPre.ppu.addressLatch = 0) =>
          /\ And(ppu.loopyT, \hFF) = lastOp.val
          /\ And(ppu.loopyT, \hFF00) = And(pre.ppu.loopyT, \hFF00)
          /\ ppu.loopyV = ppu.loopyT
          /\ ppu.addressLatch = 0
    /\ (~panicked /\ Writes(lastOp, PPUSCROLL) /\ Writes(prevOp, PPUADDR)
           /\ prevPre.ppu.addressLatch = 0) =>
          /\ And(ppu.loopyT, \h7000) = And(lastOp.val, 7) * \h1000
          /\ And(ppu.loopyT, \h03E0) = (lastOp.val \div 8) * 32
          /\ And(ppu.loopyT, \h8C1F) = And(pre.ppu.loopyT, \h8C1F)
          /\ ppu.loopyX = pre.ppu.loopyX
          /\ ppu.loopyV = pre.ppu.loopyV
          /\ ppu.addressLatch = 0
    /\ (~panicked /\ (Writes(lastOp, PPUSCROLL) \/ Writes(lastOp, PPUADDR))) =>
          ppu.addressLatch = 1 - pre.ppu.addressLatch
    /\ (~panicked /\ Reads(lastOp, PPUSTATUS)) => ppu.addressLatch = 0
    /\ ~(Writes(lastOp, PPUSCROLL) \/ Writes(lastOp, PPUADDR)
          \/ Reads(lastOp, PPUSTATUS)) =>
          ppu.addressLatch = pre.ppu.addressLatch

\* PPUSCROLL 0x7D then PPUADDR 0x10 from a cleared latch: loopyT's low byte
\* and loopyV's become 0x10 and the latch is clear again.
C39_Witness ==
    /\ ~panicked
    /\ Writes(prevOp, PPUSCROLL) /\ prevOp.val = \h7D
    /\ prevPre.ppu.addressLatch = 0 /\ pre.ppu.addressLatch = 1
    /\ Writes(lastOp, PPUADDR) /\ lastOp.val = \h10
    /\ And(ppu.loopyV, \hFF) = \h10 /\ And(pre.ppu.loopyV, \hFF) # \h10
    /\ ppu.addressLatch = 0

\* The frame leaves VBlank between the two writes of a pair: the latch
\* stays set.
C39_WitnessHeld ==
    /\ ~panicked
    /\ Writes(prevOp, PPUADDR) /\ prevPre.ppu.addressLatch = 0
    /\ lastOp.kind = "ExitVBlank"
    /\ ppu.addressLatch = 1

\* C34: a PPUDATA access made while loopyV is 0x4000 or above behaves as one
\* made at loopyV & 0x3FFF.  When that address is below 0x3F00, a write
\* stores its byte in cartridge memory there and leaves the palette alone,
\* and a read returns the read buffer and refills it from cartridge memory
\* there; from 0x3F00 on, a write stores the low six bits in the palette
\* entry (loopyV & 0x1F) and a read returns that entry.
C34_AddressMirror ==
    LET mirrored == And(pre.ppu.loopyV, \h3FFF)
    IN  /\ (~panicked /\ Writes(lastOp, PPUDATA) /\ pre.ppu.loopyV >= \h4000
             /\ mirrored < \h3F00) =>
              /\ ReadPPU(cartMapper, mirrored).val = lastOp.val
              /\ ppu.pal = pre.ppu.pal
        /\ (~panicked /\ Reads(lastOp, PPUDATA) /\ pre.ppu.loopyV >= \h4000
             /\ mirrored < \h3F00) =>
              /\ ret = pre.ppu.bufferedReadData
              /\ ppu.bufferedReadData = ReadPPU(pre.cart, mirrored).val
        /\ (~panicked /\ Writes(lastOp, PPUDATA) /\ pre.ppu.loopyV >= \h4000
             /\ mirrored >= \h3F00) =>
              ppu.pal[And(mirrored, \h1F)] = And(lastOp.val, \h3F)
        /\ (~panicked /\ Reads(lastOp, PPUDATA) /\ pre.ppu.loopyV >= \h4000
             /\ mirrored >= \h3F00) =>
              ret = pre.ppu.pal[And(mirrored, \h1F)]

-----------------------------------------------------------------------------
(* SpecBus: the CPU bus outside the PPU registers - work RAM and its        *)
(* mirrors, sprite DMA at 0x4014, the controller at 0x4016, the ignored     *)
(* registers and the cartridge - from power-on, with the host's keys        *)
(* changing freely between controller reads.                                *)

MaxReads == 10

BusReadAddrs == {\h0200, \h0AFF, \h4015, \h4016, \h4017, \h6000, \h8000}

BusWrites ==
    { W(\h0200, \hAA), W(\h0AFF, \h55),
      W(\h4014, \h02), W(\h4014, \h07), W(\h4014, \h08), W(\h4014, \hFF),
      W(\h4016, \h00), W(\h4016, \h01), W(\h4016, \h02), W(\h4016, \h03),
      W(\h4000, \h0F), W(\h4015, \h0F), W(\h4017, \h40), W(\h6000, \h99),
      W(\h8000, \h01) }

\* What the host may be holding down when the controller is read.
KeySets == { {}, {KEY_A_1, KEY_START_1}, {KEY_B_1, KEY_UP_1, KEY_RIGHT_1} }

InitBus ==
    PowerOn(NesFile(Horizontal, OneBank(PrgBank(<<\hEA>>, 0)),
                             OneBank(ChrBank)), << >>)

BusRead(addr, keys) ==
    /\ addr = \h4016 => reads < MaxReads
    /\ addr # \h4016 => keys = pressed
    /\ Step(R(addr), keys)
    /\ Forget
    /\ UNCHANGED nOps

BusWrite(op) ==
    /\ Step(op, pressed)
    /\ Forget
    /\ UNCHANGED nOps

NextBus ==
    \/ \E addr \in BusReadAddrs : \E keys \in KeySets : BusRead(addr, keys)
    \/ \E op \in BusWrites : BusWrite(op)

SpecBus == InitBus /\ [][NextBus]_vars

-----------------------------------------------------------------------------
(* Properties of the bus, checked under SpecBus                             *)

\* The byte a CPU read of addr would have returned before the last call.
ReadableBefore(addr) ==
    Read(pre.mem, pre.ppu, pre.cart, pressed, pressed, addr).val

\* C7: for every 8-bit val, a write of val to 0x4014 copies the 256 bytes
\* readable at CPU addresses val*0x100 .. val*0x100+255 into OAM[0..255] in
\* order and returns 513 extra cycles.
C7_SpriteDMA ==
    (lastOp.kind = "write" /\ lastOp.addr = \h4014) =>
        /\ ~panicked
        /\ \A i \in 0 .. 255 :
              Rd(ppu.oamData, i) = ReadableBefore(lastOp.val * \h100 + i)
        /\ ret = 513

\* C8: with `reads` reads of 0x4016 made since the cursor was last reset, the
\* k-th of them (k = 1..8) returned 1 if the k-th button of A, B, Select,
\* Start, Up, Down, Left, Right was held at that moment and 0 otherwise, the
\* ninth and later ones returned 1, and the cursor is in 0..8.
C8_ControllerReads ==
    LET order == << KEY_A_1, KEY_B_1, KEY_SELECT_1, KEY_START_1,
                    KEY_UP_1, KEY_DOWN_1, KEY_LEFT_1, KEY_RIGHT_1 >>
    IN  /\ mem.currentKeyRead \in 0 .. 8
        /\ mem.currentKeyRead = IF reads < 8 THEN reads ELSE 8
        /\ (~panicked /\ lastOp.kind = "read" /\ lastOp.addr = \h4016) =>
              /\ reads >= 1
              /\ reads <= 8 => ret = (IF order[reads] \in pressed THEN 1 ELSE 0)
              /\ reads > 8 => ret = 1

\* The fourth read after a reset, answering 1 for Start held while A, read
\* first, is held too and Select, read third, is not.
C8_Witness ==
    /\ ~panicked
    /\ lastOp.kind = "read" /\ lastOp.addr = \h4016
    /\ reads = 4 /\ pre.mem.currentKeyRead = 3
    /\ pressed = {KEY_A_1, KEY_START_1}
    /\ ret = 1

\* C9: a write to 0x4016 resets the read cursor to 0 when bit 0 of the value
\* is 0 and bit 0 of the value written to 0x4016 before it was 1, and any
\* other write to 0x4016 leaves the cursor where it was.
C9_StrobeTransition ==
    (~panicked /\ lastOp.kind = "write" /\ lastOp.addr = \h4016) =>
        IF And(lastOp.val, 1) = 0 /\ pre.strobe = 1
        THEN mem.currentKeyRead = 0
        ELSE mem.currentKeyRead = pre.mem.currentKeyRead

-----------------------------------------------------------------------------
(* SpecFrame: main()'s render loop driving the CPU and the PPU, one step    *)
(* per Interpret() call and per scanline boundary, on the cartridges below. *)

PPUCyclesPerScanLine == 341
PPUCyclesPerCPUCycle == 3

MaxFrames == 2
MaxResets == 1

\* Enables NMIs and idles; the handler reads PPUSTATUS and returns.
\*   8000 LDA #$80  8002 STA $2000  8005 JMP $8005   8008 BIT $2002  800B RTI
NmiProgram ==
    PrgBank(<<\hA9, \h80, \h8D, \h00, \h20, \h4C, \h05, \h80,
              \h2C, \h02, \h20, \h40>>, \h08)

\* Polls PPUSTATUS for VBlank, then enables NMIs and idles; the handler
\* disables them again.
\*   8000 LDA $2002  8003 BPL $8000  8005 LDA #$80  8007 STA $2000
\*   800A JMP $800A  800D LDA #$00   800F STA $2000  8012 RTI
PollProgram ==
    PrgBank(<<\hAD, \h02, \h20, \h10, \hFB, \hA9, \h80, \h8D, \h00, \h20,
              \h4C, \h0A, \h80, \hA9, \h00, \h8D, \h00, \h20, \h40>>, \h0D)

\* Makes OAM entry 0 show tile 1 and turns background and sprite rendering
\* on (left columns included); waits for the sprite-0 hit, turns rendering off
\* again and then reads PPUSTATUS forever.  NMIs stay off.
\*   8000 LDA #$01  8002 STA $2003  8005 STA $2004  8008 LDA #$1E
\*   800A STA $2001 800D BIT $2002  8010 BVC $800D  8012 LDA #$00
\*   8014 STA $2001 8017 LDA $2002  801A JMP $8017   801D RTI
SpriteProgram ==
    PrgBank(<<\hA9, \h01, \h8D, \h03, \h20, \h8D, \h04, \h20, \hA9, \h1E,
              \h8D, \h01, \h20, \h2C, \h02, \h20, \h50, \hFB, \hA9, \h00,
              \h8D, \h01, \h20, \hAD, \h02, \h20, \h4C, \h17, \h80, \h40>>, \h1D)

Programs == {NmiProgram, PollProgram, SpriteProgram}

InitFrame ==
    \E prg \in Programs :
        PowerOn(NesFile(Horizontal, OneBank(prg), OneBank(ChrBank)), << >>)

\* The running machine as the CPU sees it.
Running == Machine(cpu, mem, ppu, cartMapper, pressed, FALSE)

\* What a step of the loop leaves behind: its outcome o, which is the
\* machine o.w and the loop position o.l.
Outcome(w, l) == [w |-> w, l |-> l]

FrameStep(outcome, op, val) ==
    \E o \in {outcome} :
        /\ panicked' = o.w.panic
        /\ cpu' = IF o.w.panic THEN cpu ELSE o.w.cpu
        /\ mem' = IF o.w.panic THEN mem ELSE o.w.mem
        /\ ppu' = IF o.w.panic THEN ppu ELSE o.w.ppu
        /\ cartMapper' = IF o.w.panic THEN cartMapper ELSE o.w.cart
        /\ pressed' = IF o.w.panic THEN pressed ELSE o.w.pressed
        /\ loop' = IF o.w.panic THEN loop ELSE o.l
        /\ lastOp' = op
        /\ ret' = val
        /\ pre' = Snapshot
        /\ Forget
        /\ UNCHANGED <<strobe, reads, nOps, nesImage>>

\* main.go 61-68: the top of the render loop.  quit and reset are what the two
\* IsKeyPressed polls answer.
FrameTop(quit, reset) ==
    /\ ~panicked
    /\ loop.pc = "top"
    /\ loop.frame < MaxFrames
    /\ quit => ~reset
    /\ reset => loop.resets < MaxResets
    /\ LET keys == (pressed \ {KEY_QUIT, KEY_RESET})
                      \cup (IF quit THEN {KEY_QUIT} ELSE {})
                      \cup (IF reset THEN {KEY_RESET} ELSE {})
           w0 == [Running EXCEPT !.pressed = keys]
       IN  IF quit
           THEN FrameStep(Outcome(w0, [loop EXCEPT !.pc = "exit"]),
                          Op("FrameTop", 0, 0), 0)
           ELSE FrameStep(Outcome(IF reset THEN Reset(w0, keys) ELSE w0,
                                  [loop EXCEPT !.pc = "line", !.scanline = 0,
                                               !.cycles = 0,
                                               !.resets = IF reset THEN @ + 1 ELSE @,
                                               !.nmis = 0,
                                               !.nmiEnabledAt241 = "unset",
                                               !.interprets = 0]),
                          Op("FrameTop", 0, 0), 0)

\* main.go 69-118, what a scanline does before its CPU loop: VBlank entry
\* and the NMI on line 241, VBlank exit on line 261.
LineStart ==
    /\ ~panicked
    /\ loop.pc = "line"
    /\ LET op == Op("LineStart", loop.scanline, 0)
           l == [loop EXCEPT !.pc = "cpu"]
       IN  IF loop.scanline = 241
           THEN LET v == EnterVBlankShouldNMI(ppu)
                    w == [Running EXCEPT !.ppu = v.ppu]
                    n == NMI(w, pressed)
                    enabled == IF And(ppu.ppuCtrl, \h80) = \h80 THEN "yes" ELSE "no"
                IN  IF v.shouldNMI
                    THEN FrameStep(
                             Outcome(n.w,
                                     [l EXCEPT !.cycles = @ + PPUCyclesPerCPUCycle * n.cycles,
                                               !.nmis = @ + 1,
                                               !.nmiEnabledAt241 = enabled]),
                             op, 1)
                    ELSE FrameStep(Outcome(w, [l EXCEPT !.nmiEnabledAt241 = enabled]),
                                   op, 0)
           ELSE IF loop.scanline = 261
           THEN FrameStep(Outcome([Running EXCEPT !.ppu = ExitVBlank(ppu)], l), op, 0)
           ELSE FrameStep(Outcome(Running, l), op, 0)

\* One turn of `for cycles < PPUCyclesPerScanLine`: an Interpret() call.
CpuStep ==
    /\ ~panicked
    /\ loop.pc = "cpu"
    /\ loop.cycles < PPUCyclesPerScanLine
    /\ \E i \in {Interpret(Running, pressed)} :
          FrameStep(Outcome(i.w,
                            [loop EXCEPT !.cycles = @ + PPUCyclesPerCPUCycle * i.cycles,
                                         !.interprets = @ + 1]),
                    Op("Interpret", cpu.pc, 0), i.cycles)

\* The end of a scanline: RenderScanLine on the visible lines, the budget
\* carried over, and the next scanline or the next frame.
LineEnd ==
    /\ ~panicked
    /\ loop.pc = "cpu"
    /\ loop.cycles >= PPUCyclesPerScanLine
    /\ LET r == IF loop.scanline < 240 THEN RenderScanLine(ppu, cartMapper)
                ELSE [ppu |-> ppu, panic |-> FALSE]
           w == [Running EXCEPT !.ppu = r.ppu, !.panic = r.panic]
           l == [loop EXCEPT !.cycles = @ - PPUCyclesPerScanLine, !.interprets = 0]
       IN  FrameStep(Outcome(w,
                             IF loop.scanline = 261
                             THEN [l EXCEPT !.pc = "top", !.scanline = 0, !.frame = @ + 1]
                             ELSE [l EXCEPT !.pc = "line", !.scanline = @ + 1]),
                     Op("LineEnd", loop.scanline, 0), 0)

NextFrame ==
    \/ \E quit \in BOOLEAN : \E reset \in BOOLEAN : FrameTop(quit, reset)
    \/ LineStart
    \/ CpuStep
    \/ LineEnd

SpecFrame == InitFrame /\ [][NextFrame]_vars

-----------------------------------------------------------------------------
(* Properties of the render loop, checked under SpecFrame                   *)

\* The address the cartridge's NMI vector holds.
NMITarget ==
    ReadCPU(cartMapper, vectorNMI).val + 256 * ReadCPU(cartMapper, vectorNMI + 1).val

\* C10: in every frame, when scanline 241 has done its work before the CPU
\* loop, the VBlank bit of PPUSTATUS is set and no instruction of that
\* scanline has run yet; if PPUCTRL bit 7 was set on entry the NMI has been
\* taken by then (pc at the NMI vector's target, three bytes pushed, 7 CPU
\* cycles = 21 PPU cycles charged to the scanline's budget), and if it was
\* clear the CPU and the budget are untouched.  A frame takes an NMI only on
\* reaching scanline 241 with PPUCTRL bit 7 set, and then exactly one.
C10_VBlankNMI ==
    /\ (~panicked /\ lastOp.kind = "LineStart" /\ lastOp.addr = 241) =>
          /\ And(ppu.ppuStatus, \h80) = \h80
          /\ loop.interprets = 0
          /\ IF And(pre.ppu.ppuCtrl, \h80) = \h80
             THEN /\ loop.nmis = 1
                  /\ cpu.pc = NMITarget
                  /\ cpu.sp = (pre.cpu.sp + 256 - 3) % 256
                  /\ loop.cycles = pre.loop.cycles + 21
             ELSE /\ loop.nmis = 0
                  /\ cpu = pre.cpu
                  /\ loop.cycles = pre.loop.cycles
    /\ loop.nmis = (IF loop.nmiEnabledAt241 = "yes" THEN 1 ELSE 0)
    /\ lastOp.kind = "Interpret" => loop.nmis = pre.loop.nmis

\* The second frame reaching scanline 241 with NMIs enabled by the program
\* during the first frame's VBlank, which took none: the NMI is taken.
C10_Witness ==
    /\ ~panicked
    /\ lastOp.kind = "LineStart" /\ lastOp.addr = 241
    /\ loop.frame = 1 /\ loop.resets = 0
    /\ And(pre.ppu.ppuCtrl, \h80) = \h80
    /\ loop.nmis = 1 /\ cpu.pc = \h800D
    /\ loop.cycles = pre.loop.cycles + 21

\* C11: on scanline 261 ExitVBlank runs before the scanline's first
\* Interpret(): it clears bits 6 and 7 of PPUSTATUS, keeps bits 0-5 and sets
\* the scanline counter to 0.  Both flags then stay clear for the whole of the
\* scanline's CPU loop, and an LDA $2002 executed in it loads a byte with both
\* flags clear.
C11_ExitVBlankFirst ==
    /\ (~panicked /\ lastOp.kind = "LineStart" /\ lastOp.addr = 261) =>
          /\ loop.interprets = 0
          /\ And(ppu.ppuStatus, \hC0) = 0
          /\ And(ppu.ppuStatus, \h3F) = And(pre.ppu.ppuStatus, \h3F)
          /\ ppu.scanLineCounter = 0
          /\ cpu = pre.cpu
    /\ (~panicked /\ loop.scanline = 261 /\ loop.pc = "cpu") =>
          And(ppu.ppuStatus, \hC0) = 0
    /\ (~panicked /\ lastOp.kind = "Interpret" /\ pre.loop.scanline = 261
           /\ ReadCPU(cartMapper, lastOp.addr).val = \hAD
           /\ cpu.opAddr = PPUSTATUS) =>
          And(cpu.ac, \hC0) = 0

\* Scanline 261 of a frame that rendered a sprite-0 hit and whose VBlank flag
\* nobody read: ExitVBlank found both flags set.  (The two come from
\* different programs, so each is a disjunct.)
C11_Witness ==
    /\ ~panicked
    /\ lastOp.kind = "LineStart" /\ lastOp.addr = 261
    /\ pre.ppu.scanLineCounter = 240
    /\ And(pre.ppu.ppuStatus, \h40) = \h40
    /\ And(ppu.ppuStatus, \hC0) = 0

C11_WitnessVBlank ==
    /\ ~panicked
    /\ lastOp.kind = "LineStart" /\ lastOp.addr = 261
    /\ And(pre.ppu.ppuStatus, \h80) = \h80
    /\ And(ppu.ppuStatus, \hC0) = 0

\* C12: every scanline's end takes PPUCyclesPerScanLine off the cycle counter
\* instead of zeroing it, an Interpret() is only called while the counter is
\* below PPUCyclesPerScanLine, and the counter the scanline's end leaves is
\* what the next scanline starts from: within a frame, and from scanline 261
\* to scanline 0 of the next frame.
C12_CarryOver ==
    /\ (~panicked /\ lastOp.kind = "LineEnd") =>
          /\ pre.loop.cycles >= PPUCyclesPerScanLine
          /\ loop.cycles = pre.loop.cycles - PPUCyclesPerScanLine
    /\ (~panicked /\ lastOp.kind = "Interpret") =>
          /\ pre.loop.cycles < PPUCyclesPerScanLine
          /\ loop.cycles = pre.loop.cycles + PPUCyclesPerCPUCycle * ret
    /\ (~panicked /\ lastOp.kind = "LineStart" /\ lastOp.addr # 241) =>
          loop.cycles = pre.loop.cycles
    /\ (~panicked /\ lastOp.kind = "FrameTop" /\ loop.pc = "line") =>
          loop.cycles = pre.loop.cycles

\* C40: the loop calls RenderScanLine at the end of the scanlines 0 .. 239
\* and of no other.  When it calls it for scanline s the PPU's
\* scanLineCounter is s, so the line's 256 pixels are set at y = s < 240, and
\* the call leaves the counter at s + 1.  Between the calls the counter stays
\* where it is: s until scanline s is rendered, 240 from the end of scanline
\* 239 until ExitVBlank on scanline 261, and 0 from there to the first line
\* of the next frame - 240 calls in every frame, the first one too.
C40_ScanLineCounter ==
    /\ (~panicked /\ lastOp.kind = "LineEnd" /\ lastOp.addr < 240) =>
          /\ pre.loop.scanline = lastOp.addr
          /\ pre.ppu.scanLineCounter = lastOp.addr
          /\ pre.ppu.scanLineCounter < DisplayHeight
          /\ ppu.scanLineCounter = lastOp.addr + 1
    /\ (~panicked /\ lastOp.kind = "LineEnd" /\ lastOp.addr >= 240) =>
          ppu.scanLineCounter = pre.ppu.scanLineCounter
    /\ lastOp.kind = "LineEnd" => ~panicked
    /\ loop.pc = "top" => ppu.scanLineCounter = 0
    /\ loop.pc \in {"line", "cpu"} =>
          ppu.scanLineCounter =
              IF loop.scanline < 240 THEN loop.scanline
              ELSE IF loop.scanline = 261 /\ loop.pc = "cpu" THEN 0
              ELSE 240

\* The last visible line of the second frame, rendered at y = 239.
C40_Witness ==
    /\ ~panicked
    /\ lastOp = Op("LineEnd", 239, 0)
    /\ pre.loop.frame = 1
    /\ pre.ppu.scanLineCounter = 239
    /\ ppu.scanLineCounter = 240

\* A line of the first frame rendered with the background and sprites on.
C40_WitnessRendering ==
    /\ ~panicked
    /\ lastOp.kind = "LineEnd" /\ lastOp.addr < 240 /\ lastOp.addr > 0
    /\ pre.loop.frame = 0
    /\ shouldRenderBackground(pre.ppu) /\ shouldRenderSprites(pre.ppu)
    /\ ppu.scanLineCounter = lastOp.addr + 1

-----------------------------------------------------------------------------
(* SpecInterrupt: the CPU running a program from power-on, one step per     *)
(* Interpret() call, with NMI() and Reset() called between instructions as  *)
(* main() does at scanline 241 and at the top of a frame.                   *)

MaxInstructions == 12
MaxNMIs == 2
MaxCPUResets == 1

\* Moves SP to s, pulls v into the status register, pushes the status with
\* PHP and with BRK and idles; the NMI and IRQ/BRK handler returns at once.
\*   8000 LDX #s  8002 TXS  8003 LDA #v  8005 PHA  8006 PLP  8007 PHP
\*   8008 SEC     8009 BRK  800A NOP     800B JMP $800B       800E RTI
StackProgram(s, v) ==
    PrgBank(<<\hA2, s, \h9A, \hA9, v, \h48, \h28, \h08, \h38, \h00, \hEA,
              \h4C, \h0B, \h80, \h40>>, \h0E)

StackPointers == {\h00, \h01, \hFD}
StatusBytes == {\h00, \hFF}

InitInterrupt ==
    \E s \in StackPointers : \E v \in StatusBytes :
        PowerOn(NesFile(Horizontal, OneBank(StackProgram(s, v)),
                                 OneBank(ChrBank)), << >>)

\* What a call on the CPU leaves behind: the machine of its outcome o and the
\* call counters o.l.
CpuCall(outcome, op, val) ==
    \E o \in {outcome} :
        /\ panicked' = o.w.panic
        /\ cpu' = IF o.w.panic THEN cpu ELSE o.w.cpu
        /\ mem' = IF o.w.panic THEN mem ELSE o.w.mem
        /\ ppu' = IF o.w.panic THEN ppu ELSE o.w.ppu
        /\ cartMapper' = IF o.w.panic THEN cartMapper ELSE o.w.cart
        /\ pressed' = IF o.w.panic THEN pressed ELSE o.w.pressed
        /\ loop' = o.l
        /\ lastOp' = op
        /\ ret' = val
        /\ pre' = Snapshot
        /\ nOps' = nOps + 1
        /\ Forget
        /\ UNCHANGED <<strobe, reads, nesImage>>

\* nesCpu.Interpret()
IntExec ==
    /\ ~panicked
    /\ loop.interprets < MaxInstructions
    /\ \E i \in {Interpret(Running, pressed)} :
          CpuCall(Outcome(i.w, [loop EXCEPT !.interprets = @ + 1]),
                  Op("Interpret", cpu.pc, 0), i.cycles)

\* nesCpu.NMI()
IntNMI ==
    /\ ~panicked
    /\ loop.nmis < MaxNMIs
    /\ \E n \in {NMI(Running, pressed)} :
          CpuCall(Outcome(n.w, [loop EXCEPT !.nmis = @ + 1]),
                  Op("NMI", cpu.pc, 0), n.cycles)

\* nesCpu.Reset()
IntReset ==
    /\ ~panicked
    /\ loop.resets < MaxCPUResets
    /\ CpuCall(Outcome(Reset(Running, pressed), [loop EXCEPT !.resets = @ + 1]),
               Op("Reset", cpu.pc, 0), 0)

NextInterrupt ==
    \/ IntExec
    \/ IntNMI
    \/ IntReset

SpecInterrupt == InitInterrupt /\ [][NextInterrupt]_vars

-----------------------------------------------------------------------------
(* Properties of interrupts and the status register, under SpecInterrupt    *)

\* The byte the stack holds at stack pointer sp, after the last call.
Stacked(sp) == Rd(mem.ram, \h100 + (sp % 256))

\* The last call was Interpret() on the instruction with this opcode.
Executed(opcode) ==
    lastOp.kind = "Interpret" /\ ReadCPU(cartMapper, lastOp.addr).val = opcode

\* The address the cartridge's reset vector holds.
ResetTarget ==
    ReadCPU(cartMapper, vectorReset).val + 256 * ReadCPU(cartMapper, vectorReset + 1).val

\* C13: NMI() stores the high byte of PC at 0x100+SP, the low byte one below
\* and the status byte two below (each modulo 256 within the stack page),
\* leaves SP three lower modulo 256, sets I, loads PC from the vector at
\* 0xFFFA/0xFFFB, leaves A, X and Y alone and returns 7.
C13_NMISequence ==
    (~panicked /\ lastOp.kind = "NMI") =>
        /\ Stacked(pre.cpu.sp) = pre.cpu.pc \div 256
        /\ Stacked(pre.cpu.sp + 255) = pre.cpu.pc % 256
        /\ Stacked(pre.cpu.sp + 254) = pre.cpu.st
        /\ cpu.sp = (pre.cpu.sp + 253) % 256
        /\ And(cpu.st, I) = I
        /\ cpu.pc = NMITarget
        /\ cpu.ac = pre.cpu.ac /\ cpu.xr = pre.cpu.xr /\ cpu.yr = pre.cpu.yr
        /\ ret = 7

\* An NMI taken with SP = 1 and I clear: the three bytes go to 0x101, 0x100
\* and 0x1FF, and SP ends at 0xFE.
C13_Witness ==
    /\ ~panicked /\ lastOp.kind = "NMI"
    /\ pre.cpu.sp = 1 /\ And(pre.cpu.st, I) = 0 /\ pre.cpu.pc = \h8007
    /\ Stacked(\h01) = \h80 /\ Stacked(\h00) = \h07 /\ Stacked(\hFF) = pre.cpu.st
    /\ cpu.sp = \hFE /\ cpu.pc = \h800E

\* C14: Reset(), whatever the CPU state, loads PC from the vector at
\* 0xFFFC/0xFFFD, sets I in the status register and leaves SP three lower
\* modulo 256.
C14_Reset ==
    (~panicked /\ lastOp.kind = "Reset") =>
        /\ cpu.pc = ResetTarget
        /\ And(cpu.st, I) = I
        /\ cpu.sp = (pre.cpu.sp + 253) % 256

\* C15: every status byte pushed by PHP, by BRK or by NMI() has bit 5 set.
C15_PushedAlwaysOn ==
    /\ (~panicked /\ lastOp.kind = "NMI") =>
          And(Stacked(pre.cpu.sp + 254), ALWAYS_ON) = ALWAYS_ON
    /\ (~panicked /\ Executed(\h08)) =>
          And(Stacked(pre.cpu.sp), ALWAYS_ON) = ALWAYS_ON
    /\ (~panicked /\ Executed(\h00)) =>
          And(Stacked(pre.cpu.sp + 254), ALWAYS_ON) = ALWAYS_ON

\* An NMI pushing the status register after PLP pulled a zero byte into it.
C15_Witness ==
    /\ ~panicked /\ lastOp.kind = "NMI"
    /\ pre.cpu.st = ALWAYS_ON
    /\ Stacked(pre.cpu.sp + 254) = ALWAYS_ON

\* C16: bit 4 (B) of the status register is 0 in every state of the CPU.
C16_NoBInRegister == And(cpu.st, B) = 0

-----------------------------------------------------------------------------
(* SpecCPU: the CPU running a program from power-on, one step per           *)
(* Interpret() call.  Every program ends in a jump to itself.               *)

\* Adds m to a with carry c, then subtracts m again with the carry inverted.
\*   8000 LDA #a  8002 SEC/CLC  8003 ADC #m  8005 CLC/SEC  8006 SBC #m
\*   8008 JMP $8008
AluProgram(a, m, c) ==
    PrgBank(<<\hA9, a, IF c = 1 THEN \h38 ELSE \h18, \h69, m,
              IF c = 1 THEN \h18 ELSE \h38, \hE9, m, \h4C, \h08, \h80>>, 0)

Operands ==
    { \h00, \h01, \h02, \h0F, \h10, \h30, \h3F, \h40, \h50, \h55, \h7E, \h7F,
      \h80, \h81, \h90, \hA0, \hAA, \hB0, \hC0, \hD0, \hEF, \hF0, \hFE, \hFF }

\* Stores 0x90 at the start of p's page, 0xA0 at p + 1 and 0x20 at p, and
\* jumps through p; 0x9020 and 0xA020 both hold a jump to themselves.
\*   8000 LDA #$90  8002 STA p&$FF00  8005 LDA #$A0  8007 STA p+1
\*   800A LDA #$20  800C STA p        800F JMP (p)
IndirectProgram(p) ==
    PrgBank(<<\hA9, \h90, \h8D, \h00, p \div 256,
              \hA9, \hA0, \h8D, (p + 1) % 256, (p + 1) \div 256,
              \hA9, \h20, \h8D, p % 256, p \div 256,
              \h6C, p % 256, p \div 256>>, 0)
    @@ Bytes(\h1020, <<\h4C, \h20, \h90>>) @@ Bytes(\h2020, <<\h4C, \h20, \hA0>>)

Pointers == {\h00FF, \h0280, \h02FF, \h0300, \h07FF}

\* Fills 0x00, 0x01, 0xFF and, a page up, 0x100 and 0x101, loads X and Y with
\* x and uses operand o in the four zero-page indexed and indirect modes.
\*   8000 LDA #$12  8002 STA $00    8004 LDA #$03  8006 STA $01
\*   8008 LDA #$34  800A STA $FF    800C LDA #$9A  800E STA $0100
\*   8011 LDA #$BC  8013 STA $0101  8016 LDX #x    8018 LDY #x
\*   801A LDA (o,X) 801C LDA (o),Y  801E LDA o,X   8020 LDX o,Y   8022 JMP $8022
ZeroPageProgram(o, x) ==
    PrgBank(<<\hA9, \h12, \h85, \h00, \hA9, \h03, \h85, \h01,
              \hA9, \h34, \h85, \hFF, \hA9, \h9A, \h8D, \h00, \h01,
              \hA9, \hBC, \h8D, \h01, \h01, \hA2, x, \hA0, x,
              \hA1, o, \hB1, o, \hB5, o, \hB6, o, \h4C, \h22, \h80>>, 0)

ZeroPageOperands == {\h00, \h01, \h80, \hFE, \hFF}
Indexes == {\h00, \h01, \h7F, \hFF}

\* Stores b at 0x10 and 0x11, loads X and Y with x and loads from and stores
\* to b in the three indexed modes that can pay for a page crossing.
\*   8000 LDA #<b   8002 STA $10   8004 LDA #>b   8006 STA $11
\*   8008 LDX #x    800A LDY #x
\*   800C LDA b,X   800F LDA b,Y   8012 LDA ($10),Y
\*   8014 STA b,X   8017 STA b,Y   801A STA ($10),Y   801C JMP $801C
IndexedProgram(b, x) ==
    PrgBank(<<\hA9, b % 256, \h85, \h10, \hA9, b \div 256, \h85, \h11,
              \hA2, x, \hA0, x,
              \hBD, b % 256, b \div 256, \hB9, b % 256, b \div 256, \hB1, \h10,
              \h9D, b % 256, b \div 256, \h99, b % 256, b \div 256, \h91, \h10,
              \h4C, \h1C, \h80>>, 0)

IndexedBases == {\h0200, \h02F0, \h4000, \hFFF0}
IndexValues == {\h00, \h01, \h10, \h14, \hFF}

\* Sets SP to s and calls a subroutine that pushes and pulls one byte.
\*   8000 LDX #s  8002 TXS  8003 JSR $8009  8006 JMP $8006
\*   8009 PHA     800A PLP  800B RTS
SubroutineProgram(s) ==
    PrgBank(<<\hA2, s, \h9A, \h20, \h09, \h80, \h4C, \h06, \h80,
              \h48, \h28, \h60>>, 0)

SubroutineStacks == {\h00, \h01, \h02, \h80, \hFD, \hFF}

CpuPrograms ==
    {AluProgram(a, m, c) : a \in Operands, m \in Operands, c \in {0, 1}}
    \cup {IndirectProgram(p) : p \in Pointers}
    \cup {ZeroPageProgram(o, x) : o \in ZeroPageOperands, x \in Indexes}
    \cup {IndexedProgram(b, x) : b \in IndexedBases, x \in IndexValues}
    \cup {SubroutineProgram(s) : s \in SubroutineStacks}

InitCPU ==
    \E prg \in CpuPrograms :
        PowerOn(NesFile(Horizontal, OneBank(prg), OneBank(ChrBank)), << >>)

\* nesCpu.Interpret()
CpuExec ==
    /\ ~panicked
    /\ \E i \in {Interpret(Running, pressed)} :
          FrameStep(Outcome(i.w, loop), Op("Interpret", cpu.pc, 0), i.cycles)

NextCPU == CpuExec

SpecCPU == InitCPU /\ [][NextCPU]_vars

-----------------------------------------------------------------------------
(* Properties of the instructions, checked under SpecCPU                    *)

\* The byte the bus held at addr before the last call.
MemAt(addr) == Read(pre.mem, pre.ppu, pre.cart, pressed, pressed, addr).val

\* The bytes following the opcode of the instruction executed last.
Operand8 == ReadCPU(cartMapper, lastOp.addr + 1).val
Operand16 == Operand8 + 256 * ReadCPU(cartMapper, lastOp.addr + 2).val

\* A byte read as a signed 8-bit number.
Signed(x) == IF x >= 128 THEN x - 256 ELSE x

\* C17: ADC with operand M and carry C followed by SBC with the same operand
\* and the carry set to 1 - C leaves in A what it held before the ADC.  (In
\* the programs that execute SBC, the byte at 0x8001 is what A held before
\* the ADC, and the two carries are set by SEC and CLC.)
C17_AdcSbcRoundTrip ==
    (~panicked /\ Executed(\hE9)) => cpu.ac = ReadCPU(cartMapper, \h8001).val

\* A = 0x80, M = 0xFF, C = 1: the ADC carries out (A = 0x80) and the SBC
\* borrows.
C17_Witness ==
    /\ ~panicked /\ Executed(\hE9)
    /\ ReadCPU(cartMapper, \h8001).val = \h80 /\ Operand8 = \hFF
    /\ ReadCPU(cartMapper, \h8002).val = \h38
    /\ pre.cpu.ac = \h80 /\ ~isSet(pre.cpu, C)
    /\ cpu.ac = \h80 /\ ~isSet(cpu, C)

\* C18: ADC stores (A + M + C) mod 256 in A, sets C exactly when the sum
\* exceeds 0xFF, sets V exactly when ((A ^ r) & (M ^ r) & 0x80) is non-zero,
\* which is exactly when the signed sum leaves -128 .. 127, and sets Z and N
\* from the byte stored.
C18_Adc ==
    (~panicked /\ Executed(\h69)) =>
        LET a == pre.cpu.ac
            m == Operand8
            r == a + m + (IF isSet(pre.cpu, C) THEN 1 ELSE 0)
            signed == Signed(a) + Signed(m) + (IF isSet(pre.cpu, C) THEN 1 ELSE 0)
        IN  /\ cpu.ac = r % 256
            /\ isSet(cpu, C) <=> r > \hFF
            /\ isSet(cpu, V) <=> And(And(Xor(a, r), Xor(m, r)), \h80) # 0
            /\ isSet(cpu, V) <=> (signed < -128 \/ signed > 127)
            /\ isSet(cpu, Z) <=> cpu.ac = 0
            /\ isSet(cpu, N) <=> cpu.ac >= \h80

\* A = 0x50, C = 0, ADC #$50: A = 0xA0, N = 1, V = 1, Z = 0, C = 0.
C18_Witness ==
    /\ ~panicked /\ Executed(\h69)
    /\ pre.cpu.ac = \h50 /\ Operand8 = \h50 /\ ~isSet(pre.cpu, C)
    /\ cpu.ac = \hA0
    /\ isSet(cpu, N) /\ isSet(cpu, V) /\ ~isSet(cpu, Z) /\ ~isSet(cpu, C)

\* C19: JMP (p) sets PC to mem[p] | mem[h] << 8, where h is p + 1 unless p's
\* low byte is 0xFF, and then the start of p's page; it takes 5 cycles.
C19_JmpIndirect ==
    (~panicked /\ Executed(\h6C)) =>
        LET p == Operand16
            h == IF p % 256 = \hFF THEN p - \hFF ELSE p + 1
        IN  /\ cpu.pc = MemAt(p) + 256 * MemAt(h)
            /\ ret = 5

\* JMP ($02FF) with 0x20 at 0x02FF, 0x90 at 0x0200 and 0xA0 at 0x0300.
C19_Witness ==
    /\ ~panicked /\ Executed(\h6C)
    /\ Operand16 = \h02FF
    /\ MemAt(\h02FF) = \h20 /\ MemAt(\h0200) = \h90 /\ MemAt(\h0300) = \hA0
    /\ cpu.pc = \h9020

IndexedByX == Executed(\hBD) \/ Executed(\h9D)
IndexedByY == Executed(\hB9) \/ Executed(\h99)
IndirectIndexed == Executed(\hB1) \/ Executed(\h91)
IndexedStore == Executed(\h9D) \/ Executed(\h99) \/ Executed(\h91)

\* Its base cycles: 4 for LDA abs,X and abs,Y, 5 for LDA (zp),Y and for STA
\* abs,X and abs,Y, 6 for STA (zp),Y.  Only the loads have a penalty, of 1.
BaseCycles ==
    CASE Executed(\hBD) \/ Executed(\hB9) -> 4
      [] Executed(\hB1) \/ Executed(\h9D) \/ Executed(\h99) -> 5
      [] OTHER -> 6

PagePenalty == IF IndexedStore THEN 0 ELSE 1

\* The un-indexed address, the index and the effective address.
UnindexedAddr ==
    IF IndirectIndexed THEN MemAt(Operand8) + 256 * MemAt((Operand8 + 1) % 256)
    ELSE Operand16

IndexUsed == IF IndexedByX THEN pre.cpu.xr ELSE pre.cpu.yr

EffectiveAddr == (UnindexedAddr + IndexUsed) % 65536

PageCrossed == (UnindexedAddr \div 256) # (EffectiveAddr \div 256)

\* C32, as stated: an instruction in ABSX, ABSY or INDY mode returns its base
\* cycles plus its penalty when the un-indexed and the effective address
\* differ in their high byte, and its base cycles otherwise.
C32_PageCrossPenalty ==
    (~panicked /\ (IndexedByX \/ IndexedByY \/ IndirectIndexed)) =>
        ret = BaseCycles + (IF PageCrossed THEN PagePenalty ELSE 0)

\* C32, amended: to the base cycles and the page-cross penalty are added the
\* cycles the bus reports for the instruction's own store, 513 when the
\* effective address of a store is 0x4014 (sprite DMA) and 0 otherwise.
C32_PageCrossPenaltyAndStore ==
    (~panicked /\ (IndexedByX \/ IndexedByY \/ IndirectIndexed)) =>
        /\ cpu.opAddr = EffectiveAddr
        /\ ret = BaseCycles + (IF PageCrossed THEN PagePenalty ELSE 0)
                  + (IF IndexedStore /\ EffectiveAddr = \h4014 THEN 513 ELSE 0)

\* LDA ($10),Y with the pointer 0x02F0 and Y = 0x10: 0x0300 is on the next
\* page and the load takes 6 cycles.
C32_Witness ==
    /\ ~panicked /\ Executed(\hB1)
    /\ UnindexedAddr = \h02F0 /\ pre.cpu.yr = \h10
    /\ cpu.opAddr = \h0300
    /\ ret = 6

\* STA $02F0,X with X = 0xFF crosses a page and takes its 5 base cycles.
C32_WitnessStore ==
    /\ ~panicked /\ Executed(\h9D)
    /\ Operand16 = \h02F0 /\ pre.cpu.xr = \hFF
    /\ cpu.opAddr = \h03EF
    /\ ret = 5

\* C33: JSR stores the high byte of the address of its last byte at
\* 0x100+SP and the low byte one below (modulo 256 within the stack page),
\* leaves SP two lower modulo 256, writes no other byte of RAM and jumps to
\* its operand; the RTS of the subroutine, which pushes and pulls one byte in
\* between, resumes at 0x8006, the instruction after the JSR at 0x8003, with
\* SP as the program's TXS set it, and writes nothing.
C33_JsrRts ==
    /\ (~panicked /\ Executed(\h20)) =>
          LET s == pre.cpu.sp
              r == lastOp.addr + 2
          IN  /\ Stacked(s) = r \div 256
              /\ Stacked(s + 255) = r % 256
              /\ cpu.sp = (s + 254) % 256
              /\ cpu.pc = Operand16
              /\ \A a \in (0 .. \h7FF) \ {\h100 + s, \h100 + ((s + 255) % 256)} :
                     Rd(mem.ram, a) = Rd(pre.mem.ram, a)
              /\ ret = 6
    /\ (~panicked /\ Executed(\h60)) =>
          /\ cpu.pc = \h8006
          /\ cpu.sp = ReadCPU(cartMapper, \h8001).val
          /\ cpu.sp = (pre.cpu.sp + 2) % 256
          /\ mem = pre.mem
          /\ ret = 6

\* JSR with SP = 0x00: 0x80 goes to 0x0100, 0x05 to 0x01FF and SP to 0xFE.
C33_Witness ==
    /\ ~panicked /\ Executed(\h20)
    /\ pre.cpu.sp = \h00
    /\ Stacked(\h00) = \h80 /\ Stacked(\hFF) = \h05
    /\ cpu.sp = \hFE /\ cpu.pc = \h8009

\* The RTS that follows it pulls across the wrap and leaves SP = 0x00.
C33_WitnessReturn ==
    /\ ~panicked /\ Executed(\h60)
    /\ pre.cpu.sp = \hFE
    /\ cpu.sp = \h00 /\ cpu.pc = \h8006

-----------------------------------------------------------------------------
(* SpecMapper: the cartridge on its own - nametable reads and writes made   *)
(* through the Mapper's PPU interface and CPU accesses to 0x6000-0x7FFF     *)
(* made through the bus - for an image of each of the four mappers with     *)
(* each mirroring, from power-on or with nametable bytes already written.   *)

MaxMapperOps == 2

PrgBanks(n) == [b \in 0 .. n - 1 |-> PrgBank(<<\hEA, b + 1>>, 0)]
ChrBanks(n) ==
    [b \in 0 .. n - 1 |->
        ChrBank @@ Bytes(\h0800, <<b + 1>>) @@ Bytes(\h1800, <<b + \h81>>)]

Cartridge(mapper, mirroring, prg, chr) ==
    [NesFile(mirroring, prg, chr) EXCEPT !.Mapper = mapper]

MapperCarts ==
    { Cartridge(n, mirroring, PrgBanks(4), IF n = 2 THEN NoBanks ELSE ChrBanks(4)) :
        n \in 0 .. 3, mirroring \in {Horizontal, Vertical} }

MapperSetups ==
    { << >>,
      << W(PPUADDR, \h28), W(PPUADDR, \h05), W(PPUDATA, \h77),
         W(PPUADDR, \h27), W(PPUADDR, \hFF), W(PPUDATA, \h33) >> }

NtAddrs == {\h2005, \h2405, \h2805, \h2C05, \h23FF, \h27FF, \h2BFF, \h2FFF}
NtBytes == {\h5A, \hA5}
SramAddrs == {\h6000, \h7FFF}
SramWrites == {W(\h6000, \h02), W(\h6000, \h99), W(\h7FFF, \h02), W(\h7FFF, \h99)}

\* One call on the Mapper's PPU interface, its result in the shape of a bus
\* access's.
MapperCall(b, p, m, keys, op) ==
    CASE op.kind = "ReadPPU" ->
            LET read(r) == BusResult(b, p, m, keys, r.val, r.panic)
            IN  read(ReadPPU(m, op.addr))
      [] op.kind = "WritePPU" ->
            LET written(r) == BusResult(b, p, r.cart, keys, 0, r.panic)
            IN  written(WritePPU(m, op.addr, op.val))

MapperStep(op) ==
    /\ ~panicked
    /\ \E r \in {MapperCall(mem, ppu, cartMapper, pressed, op)} : Finish(r, op)
    /\ UNCHANGED <<cpu, loop>>

InitMapper ==
    \E file \in MapperCarts : \E script \in MapperSetups : PowerOn(file, script)

MapperReadPPU(addr) ==
    /\ nOps < MaxMapperOps
    /\ MapperStep(Op("ReadPPU", addr, 0))
    /\ Remember
    /\ nOps' = nOps + 1

MapperWritePPU(addr, val) ==
    /\ nOps < MaxMapperOps
    /\ MapperStep(Op("WritePPU", addr, val))
    /\ Remember
    /\ nOps' = nOps + 1

SramRead(addr) ==
    /\ nOps < MaxMapperOps
    /\ Step(R(addr), pressed)
    /\ Remember
    /\ nOps' = nOps + 1

SramWrite(op) ==
    /\ nOps < MaxMapperOps
    /\ Step(op, pressed)
    /\ Remember
    /\ nOps' = nOps + 1

\* A CPU write to the cartridge outside 0x6000-0x7FFF: to the mapper's
\* register window, or below the RAM window.
BankWrites == {W(\h8000, \h01), W(\h5000, \h5C)}

BankWrite(op) ==
    /\ nOps < MaxMapperOps
    /\ Step(op, pressed)
    /\ Remember
    /\ nOps' = nOps + 1

NextMapper ==
    \/ \E addr \in NtAddrs : MapperReadPPU(addr)
    \/ \E addr \in NtAddrs : \E val \in NtBytes : MapperWritePPU(addr, val)
    \/ \E addr \in SramAddrs : SramRead(addr)
    \/ \E op \in SramWrites : SramWrite(op)
    \/ \E op \in BankWrites : BankWrite(op)

SpecMapper == InitMapper /\ [][NextMapper]_vars

-----------------------------------------------------------------------------
(* Properties of the cartridge, checked under SpecMapper                    *)

\* The nametable (0..3) and the offset in it of a PPU address in
\* 0x2000-0x2FFF.
Table(addr) == (addr - \h2000) \div \h400
Offset(addr) == addr % \h400

\* The nametables that share their bytes under each mirroring.
SharedTables(mirroring) ==
    IF mirroring = Horizontal THEN {{0, 1}, {2, 3}} ELSE {{0, 2}, {1, 3}}

Aliases(mirroring, a, b) ==
    /\ Offset(a) = Offset(b)
    /\ \E pair \in SharedTables(mirroring) : Table(a) \in pair /\ Table(b) \in pair

\* C21: with Horizontal mirroring nametables 0 and 1 share their bytes and so
\* do 2 and 3, with Vertical mirroring 0 and 2 do and so do 1 and 3: a byte
\* written through WritePPU at one nametable address is what ReadPPU returns
\* at the same offset of the nametable sharing with it, and every other
\* nametable byte reads as it did before the write.
C21_NametableMirroring ==
    /\ (~panicked /\ lastOp.kind = "WritePPU") =>
          \A b \in NtAddrs :
              ReadPPU(cartMapper, b).val =
                  IF Aliases(nesImage.Mirroring, lastOp.addr, b) THEN lastOp.val
                  ELSE ReadPPU(pre.cart, b).val
    /\ (~panicked /\ prevOp.kind = "WritePPU" /\ lastOp.kind = "ReadPPU") =>
          ret = IF Aliases(nesImage.Mirroring, prevOp.addr, lastOp.addr)
                THEN prevOp.val
                ELSE ReadPPU(prevPre.cart, lastOp.addr).val

\* Horizontal mirroring: 0x5A written at 0x2005 is read back at 0x2405 while
\* 0x2805 and 0x2C05 keep the 0x77 written there before.
C21_Witness ==
    /\ ~panicked
    /\ nesImage.Mirroring = Horizontal
    /\ prevOp = Op("WritePPU", \h2005, \h5A)
    /\ lastOp = Op("ReadPPU", \h2405, 0)
    /\ ret = \h5A
    /\ ReadPPU(cartMapper, \h2805).val = \h77
    /\ ReadPPU(cartMapper, \h2C05).val = \h77

\* Vertical mirroring: 0xA5 written at 0x2BFF is read back at 0x23FF while
\* 0x27FF keeps the 0x33 written there before.
C21_WitnessVertical ==
    /\ ~panicked
    /\ nesImage.Mirroring = Vertical
    /\ prevOp = Op("WritePPU", \h2BFF, \hA5)
    /\ lastOp = Op("ReadPPU", \h23FF, 0)
    /\ ret = \hA5
    /\ ReadPPU(cartMapper, \h27FF).val = \h33

\* C30: with each of the mappers 0, 1, 2 and 3, a byte the CPU writes to an
\* address in 0x6000-0x7FFF is what the CPU's next read of that address
\* returns.
C30_SramIsRam ==
    (~panicked /\ prevOp.kind = "write" /\ prevOp.addr \in SramAddrs
        /\ lastOp.kind = "read" /\ lastOp.addr = prevOp.addr) =>
            ret = prevOp.val

-----------------------------------------------------------------------------
(* SpecMMC1: CPU writes to a mapper 1 cartridge, one at a time, from        *)
(* power-on or after a few registers have been loaded: an image with        *)
(* sixteen PRG-ROM banks and two CHR-ROM banks, and one with four PRG-ROM   *)
(* banks and CHR-RAM.                                                        *)

MaxMmc1Writes == 10

\* The five writes that load the 5-bit value v into the register at addr.
FiveWrites(addr, v) == [k \in 1 .. 5 |-> W(addr, Bit(v, k - 1))]

Mmc1Carts ==
    { Cartridge(1, Horizontal, PrgBanks(16), ChrBanks(2)),
      Cartridge(1, Vertical, PrgBanks(4), NoBanks) }

Mmc1Setups ==
    { << >>,
      FiveWrites(\hE000, 2),
      FiveWrites(\h8000, \h08) \o FiveWrites(\hE000, 1) }

Mmc1Writes ==
    { W(addr, val) : addr \in {\h8000, \hBFFF, \hC000, \hFFFF}, val \in {\h01, \h7E} }
    \cup { W(\h9FFF, \h80), W(\hE000, \hFF) }

InitMMC1 ==
    \E file \in Mmc1Carts : \E script \in Mmc1Setups : PowerOn(file, script)

Mmc1Write(op) ==
    /\ nOps < MaxMmc1Writes
    /\ Step(op, pressed)
    /\ Forget
    /\ nOps' = nOps + 1

NextMMC1 == \E op \in Mmc1Writes : Mmc1Write(op)

SpecMMC1 == InitMMC1 /\ [][NextMMC1]_vars

-----------------------------------------------------------------------------
(* Properties of mapper 1, checked under SpecMMC1                           *)

\* The last step as a write to the mapper's register window with bit 7 of
\* the value clear (a bit for the shift register) or set (a reset).
ShiftWrite ==
    lastOp.kind = "write" /\ lastOp.addr >= \h8000 /\ lastOp.val < \h80

ResetWrite ==
    lastOp.kind = "write" /\ lastOp.addr >= \h8000 /\ lastOp.val >= \h80

\* The fifth bit-7-clear write since the last commit or reset, and the 5-bit
\* value it completes: the four bits shifted in before it, then its own bit
\* as bit 4.
FifthWrite == ShiftWrite /\ pre.cart.whichBit = 4
Loaded == pre.cart.shiftReg + 16 * (lastOp.val % 2)

\* What a write may leave different in the mapper.
SameBut(fields) ==
    \A f \in (DOMAIN cartMapper) \ fields : cartMapper[f] = pre.cart[f]

\* v with its low bit ignored.
Even(v) == v - (v % 2)

\* The 4 KiB of CHR-ROM the 5-bit value v selects.
Chr4K(v) ==
    PtSlice(TRUE, (v \div 2) % Cardinality(DOMAIN cartMapper.chrRom),
            IF v % 2 = 0 THEN 0 ELSE \h1000)

\* C22: each write with bit 7 clear to 0x8000-0xFFFF puts bit 0 of the value
\* into the shift register at the position of the bit counter (least
\* significant bit first) and changes nothing else until the fifth one; the
\* fifth one loads the 5-bit value into the register its own address selects
\* (0x8000-0x9FFF control, 0xA000-0xBFFF CHR bank 0, 0xC000-0xDFFF CHR bank
\* 1, 0xE000-0xFFFF PRG) and into no other, and leaves the shift register
\* and the bit counter at zero.
C22_ShiftRegister ==
    /\ cartMapper.whichBit \in 0 .. 4
    /\ cartMapper.shiftReg < 2 ^ cartMapper.whichBit
    /\ (~panicked /\ ShiftWrite /\ ~FifthWrite) =>
          /\ cartMapper.whichBit = pre.cart.whichBit + 1
          /\ cartMapper.shiftReg =
                pre.cart.shiftReg + (lastOp.val % 2) * 2 ^ pre.cart.whichBit
          /\ SameBut({"whichBit", "shiftReg"})
    /\ (~panicked /\ FifthWrite) =>
          /\ cartMapper.whichBit = 0
          /\ cartMapper.shiftReg = 0
          /\ lastOp.addr < \hA000 =>
                /\ cartMapper.controlReg = Loaded
                /\ SameBut({"whichBit", "shiftReg", "controlReg", "ppuNts"})
          /\ (lastOp.addr >= \hA000 /\ lastOp.addr < \hC000) =>
                /\ SameBut({"whichBit", "shiftReg", "ppuPt0", "ppuPt1"})
                /\ (cartMapper.ppuPtIsROM /\ pre.cart.controlReg >= 16) =>
                      /\ cartMapper.ppuPt0 = Chr4K(Loaded)
                      /\ cartMapper.ppuPt1 = pre.cart.ppuPt1
                /\ (cartMapper.ppuPtIsROM /\ pre.cart.controlReg < 16) =>
                      /\ cartMapper.ppuPt0 = Chr4K(Even(Loaded))
                      /\ cartMapper.ppuPt1 = Chr4K(Even(Loaded) + 1)
          /\ (lastOp.addr >= \hC000 /\ lastOp.addr < \hE000) =>
                /\ SameBut({"whichBit", "shiftReg", "ppuPt1"})
                /\ (cartMapper.ppuPtIsROM /\ pre.cart.controlReg >= 16) =>
                      cartMapper.ppuPt1 = Chr4K(Loaded)
          /\ lastOp.addr >= \hE000 =>
                /\ SameBut({"whichBit", "shiftReg", "cpuPages"})
                /\ \E slot \in 0 .. 1 :
                      cartMapper.cpuPages[slot] \in
                          { (Loaded % 16) % Cardinality(DOMAIN cartMapper.prgRom),
                            Even(Loaded % 16) + slot }

\* The writes 0, 1, 1, 0 and then 1 at 0x8000: the control register takes
\* 0x16 and the PRG and CHR mappings stay as they were.
C22_Witness ==
    /\ ~panicked
    /\ FifthWrite
    /\ lastOp = W(\h8000, \h01)
    /\ pre.cart.shiftReg = 6
    /\ cartMapper.controlReg = \h16
    /\ cartMapper.shiftReg = 0 /\ cartMapper.whichBit = 0

\* The third bit of a sequence written at a PRG address: only the shift
\* register and the bit counter move.
C22_WitnessPartial ==
    /\ ~panicked
    /\ ShiftWrite /\ lastOp.addr = \hFFFF /\ lastOp.val = \h01
    /\ pre.cart.whichBit = 2 /\ pre.cart.shiftReg = 1
    /\ cartMapper.whichBit = 3 /\ cartMapper.shiftReg = 5
    /\ cartMapper.cpuPages = pre.cart.cpuPages

\* C23: a write with bit 7 set to 0x8000-0xFFFF zeroes the shift register
\* and the bit counter whatever they held, ORs 0x0C into the control
\* register leaving its other bits, and leaves the pattern-table mapping as
\* it was.
C23_ShiftReset ==
    (~panicked /\ ResetWrite) =>
        /\ cartMapper.shiftReg = 0
        /\ cartMapper.whichBit = 0
        /\ cartMapper.controlReg = Or(pre.cart.controlReg, \h0C)
        /\ cartMapper.controlReg % 4 = pre.cart.controlReg % 4
        /\ cartMapper.controlReg \div 16 = pre.cart.controlReg \div 16
        /\ SameBut({"shiftReg", "whichBit", "controlReg", "ppuNts"})

\* A reset after three bits (1, 0, 1) of a sequence, the control register
\* holding 0x10: the bits are dropped and the control register becomes 0x1C.
C23_Witness ==
    /\ ~panicked
    /\ ResetWrite
    /\ pre.cart.whichBit = 3 /\ pre.cart.shiftReg = 5
    /\ pre.cart.controlReg = \h10
    /\ cartMapper.controlReg = \h1C
    /\ cartMapper.shiftReg = 0 /\ cartMapper.whichBit = 0

\* C24: after a value is loaded into the PRG register, in PRG mode 3 the
\* 0xC000 slot maps the last bank and the 0x8000 slot the selected one, in
\* mode 2 the 0x8000 slot maps the first bank and the 0xC000 slot the
\* selected one, and in modes 0 and 1 the two slots map the 32 KiB pair the
\* value selects with its low bit ignored.
C24_PrgModes ==
    (~panicked /\ FifthWrite /\ lastOp.addr >= \hE000) =>
        LET nPrg == Cardinality(DOMAIN cartMapper.prgRom)
            selected == Loaded % 16
            mode == (pre.cart.controlReg \div 4) % 4
        IN  /\ mode = 3 =>
                /\ cartMapper.cpuPages[0] = selected % nPrg
                /\ cartMapper.cpuPages[1] = nPrg - 1
            /\ mode = 2 =>
                /\ cartMapper.cpuPages[0] = 0
                /\ cartMapper.cpuPages[1] = selected % nPrg
            /\ mode \in {0, 1} =>
                /\ cartMapper.cpuPages[0] = Even(selected)
                /\ cartMapper.cpuPages[1] = Even(selected) + 1

\* C25: on a cartridge with CHR-RAM, loading a value into the CHR bank 0 or
\* the CHR bank 1 register ends without a panic and leaves both pattern
\* table slots and their bytes as they were, in either CHR mode.
C25_ChrRamIgnored ==
    (FifthWrite /\ lastOp.addr >= \hA000 /\ lastOp.addr < \hE000
        /\ Cardinality(DOMAIN pre.cart.chrRom) = 0) =>
            /\ ~panicked
            /\ cartMapper.ppuPt0 = pre.cart.ppuPt0
            /\ cartMapper.ppuPt1 = pre.cart.ppuPt1
            /\ cartMapper.ptRam = pre.cart.ptRam

-----------------------------------------------------------------------------
(* SpecRender: the frame loop's RenderScanLine calls on the first lines of  *)
(* a frame, after the program has set up sprites, scroll and PPUMASK.  The  *)
(* nametables hold tile 0 throughout, whose rows 0 and 1 are 0x11 and 0x22; *)
(* tile 1, used by the sprites set up, has a solid row 0.                   *)

MaxLines == 3

RenderMasks == {\h0A, \h10, \h18, \h1E}

\* OAM bytes written from OAMADDR 0: y, tile, attribute, x of each entry.
RenderSprites ==
    { << \h00, \h01, \h01, \h00 >>,
      << \h00, \h01, \h60, \hFA >>,
      << \hF0, \h00, \h00, \h00, \h00, \h01, \h20, \h00 >>,
      << \h00, \h01, \h00, \hFF >>,
      << \h00, \hFF, \h80, \h10, \h00, \hFE, \h00, \h20 >> }

\* PPUCTRL and the two PPUSCROLL bytes.
RenderScrolls ==
    { << \h00, \h00, \h00 >>, << \h02, \h00, \hFF >>, << \h01, \h2B, \h07 >>,
      << \h38, \h00, \h06 >> }

RenderSetup(mask, oam, scroll) ==
    << W(OAMADDR, 0) >> \o [k \in 1 .. Len(oam) |-> W(OAMDATA, oam[k])]
    \o << W(PPUCTRL, scroll[1]), W(PPUSCROLL, scroll[2]), W(PPUSCROLL, scroll[3]),
          W(PPUMASK, mask) >>

InitRender ==
    \E mask \in RenderMasks : \E oam \in RenderSprites : \E scroll \in RenderScrolls :
        PowerOn(NesFile(Horizontal, OneBank(PrgBank(<<\hEA>>, 0)), OneBank(ChrBank)),
                RenderSetup(mask, oam, scroll))

\* main()'s call ppu.RenderScanLine() for one of the lines 0 .. 239; ret is
\* what the call reports.
RenderLine ==
    /\ ~panicked
    /\ nOps < MaxLines
    /\ \E r \in {RenderScanLine(ppu, cartMapper)} :
          Finish(BusResult(mem, r.ppu, cartMapper, pressed, r, r.panic),
                 Op("RenderScanLine", 0, 0))
    /\ UNCHANGED <<cpu, loop>>
    /\ Forget
    /\ nOps' = nOps + 1

NextRender == RenderLine

SpecRender == InitRender /\ [][NextRender]_vars

-----------------------------------------------------------------------------
(* Properties of the renderer, checked under SpecRender                     *)

\* The last step rendered a line with the background or the sprites on.
Rendered ==
    /\ ~panicked
    /\ lastOp.kind = "RenderScanLine"
    /\ shouldRenderBackground(pre.ppu) \/ shouldRenderSprites(pre.ppu)

\* The pixels OAM entry 0 alone puts on the line just rendered.
Sprite0Row ==
    spriteEntry([ppu |-> pre.ppu, out |-> Row(0), priorityOut |-> Row(FALSE),
                 panic |-> FALSE], pre.cart, Row(0), 0).out

\* C26: a RenderScanLine call that sets PPUSTATUS bit 6 rendered, with the
\* background and the sprites enabled, a line on which OAM entry 0 put a
\* pixel with non-zero pattern bits at a column x < 255 where the background
\* row of the line holds a non-background pixel.
C26_SpriteZeroHit ==
    (~panicked /\ lastOp.kind = "RenderScanLine"
        /\ Bit(ppu.ppuStatus, 6) = 1 /\ Bit(pre.ppu.ppuStatus, 6) = 0) =>
            /\ shouldRenderBackground(pre.ppu)
            /\ shouldRenderSprites(pre.ppu)
            /\ \E x \in 0 .. 254 :
                  /\ Sprite0Row[x] % 4 # 0
                  /\ ret.background[x] % 4 # 0

\* Line 1 with sprite 0 at x = 0 over the background row 0x22: the flag is
\* raised, the overlap being at column 2.
C26_Witness ==
    /\ ~panicked
    /\ lastOp.kind = "RenderScanLine"
    /\ pre.ppu.scanLineCounter = 1
    /\ Bit(pre.ppu.ppuStatus, 6) = 0 /\ Bit(ppu.ppuStatus, 6) = 1
    /\ Sprite0Row[2] = 5 /\ ret.background[2] = 1

\* C27: a line rendered with the background or the sprites enabled starts,
\* before any background fetch, by loading loopyV from loopyT: all of it on
\* scanline 0, and on every other scanline the bits 0x041F only, the other
\* bits staying as the line before left them.
C27_LoopyVLoad ==
    Rendered =>
        /\ pre.ppu.scanLineCounter = 0 => ret.loopyVAtFetch = pre.ppu.loopyT
        /\ pre.ppu.scanLineCounter # 0 =>
              \A n \in 0 .. 15 :
                  Bit(ret.loopyVAtFetch, n) =
                      IF n \in {0, 1, 2, 3, 4, 10} THEN Bit(pre.ppu.loopyT, n)
                      ELSE Bit(pre.ppu.loopyV, n)
        /\ ~shouldRenderBackground(pre.ppu) => ppu.loopyV = ret.loopyVAtFetch

\* Scanline 0 with loopyT = 0x7BE0 and loopyV = 0: the fetches start from
\* loopyV = 0x7BE0.
C27_Witness ==
    /\ Rendered
    /\ pre.ppu.scanLineCounter = 0
    /\ pre.ppu.loopyT = \h7BE0 /\ pre.ppu.loopyV = 0
    /\ ret.loopyVAtFetch = \h7BE0

\* A later scanline on which loopyV differs from loopyT outside the bits
\* 0x041F and, before the load, inside them.
C27_WitnessLater ==
    /\ Rendered
    /\ pre.ppu.scanLineCounter = 2
    /\ And(pre.ppu.loopyV, \h041F) # And(pre.ppu.loopyT, \h041F)
    /\ And(ret.loopyVAtFetch, \h7BE0) # And(pre.ppu.loopyT, \h7BE0)
    /\ And(ret.loopyVAtFetch, \h041F) = And(pre.ppu.loopyT, \h041F)

\* The palette index the priority table gives for a background value, a
\* sprite value and the sprite's priority.
Merged(bg, sprite, high) ==
    IF bg % 4 = 0 /\ sprite % 4 = 0 THEN 0
    ELSE IF bg % 4 = 0 THEN 16 + sprite
    ELSE IF sprite % 4 = 0 THEN bg
    ELSE IF high THEN 16 + sprite
    ELSE bg

\* C28: the palette index chosen for a pixel is 0 when the background and
\* the sprite value are both background colour, 0x10 + sprite when only the
\* background value is, the background value when only the sprite value is,
\* and otherwise 0x10 + sprite for a sprite of high priority (attribute bit
\* 5 clear) and the background value for one of low priority - for all
\* values, and for every pixel of a rendered line.
C28_PriorityTable ==
    /\ \A bg \in 0 .. 15 : \A sprite \in 0 .. 15 : \A high \in BOOLEAN :
          palEntry(bg, sprite, high) = Merged(bg, sprite, high)
    /\ Rendered =>
          \A i \in 0 .. 255 :
              /\ ret.entries[i] =
                    Merged(ret.background[i], ret.sprites[i], ret.spriteHasPriority[i])
              /\ (shouldRenderSprites(pre.ppu) /\ Sprite0Row[i] % 4 # 0) =>
                    /\ ret.sprites[i] = Sprite0Row[i]
                    /\ ret.spriteHasPriority[i] = (Bit(Rd(pre.ppu.oamData, 2), 5) = 0)

\* A line with a low-priority sprite pixel behind a background pixel, a
\* sprite pixel over background colour and a background pixel alone.
C28_Witness ==
    /\ Rendered
    /\ \E i \in 0 .. 255 :
          /\ ret.background[i] % 4 # 0 /\ ret.sprites[i] % 4 # 0
          /\ ~ret.spriteHasPriority[i]
          /\ ret.entries[i] = ret.background[i]
    /\ \E i \in 0 .. 255 :
          /\ ret.background[i] % 4 = 0 /\ ret.sprites[i] % 4 # 0
          /\ ret.entries[i] = 16 + ret.sprites[i]
    /\ \E i \in 0 .. 255 :
          /\ ret.background[i] % 4 # 0 /\ ret.sprites[i] % 4 = 0
          /\ ret.entries[i] = ret.background[i]

\* A line with a high-priority sprite pixel in front of a background pixel.
C28_WitnessInFront ==
    /\ Rendered
    /\ \E i \in 0 .. 255 :
          /\ ret.background[i] % 4 # 0 /\ ret.sprites[i] % 4 # 0
          /\ ret.spriteHasPriority[i]
          /\ ret.entries[i] = 16 + ret.sprites[i]

\* C38: no RenderScanLine call ends in the mapper's panic for an address of
\* 0x3F00 or above, whatever PPUCTRL, OAM, loopyV and loopyX hold (on the
\* lines rendered here, nothing else of the call can panic), and in no state
\* reached would a PPUDATA read or write pass the mapper such an address.
C38_MapperAddressesInRange ==
    /\ lastOp.kind = "RenderScanLine" => ~panicked
    /\ ~ReadData(ppu, cartMapper).panic
    /\ ~WriteData(ppu, cartMapper, \hC5).panic

\* Line 1 rendered with 8x16 sprites, the background on and loopyV = 0x7000
\* when the fetches begin: OAM entry 0 is flipped and has tile 0xFF, whose
\* second bitplane's row 7 is the last byte of the pattern tables, 0x1FFF.
C38_Witness ==
    /\ Rendered
    /\ pre.ppu.scanLineCounter = 1
    /\ And(pre.ppu.ppuCtrl, \h20) = \h20
    /\ shouldRenderBackground(pre.ppu) /\ shouldRenderSprites(pre.ppu)
    /\ Rd(pre.ppu.oamData, 1) = \hFF /\ Rd(pre.ppu.oamData, 2) = \h80
    /\ ret.loopyVAtFetch = \h7000

-----------------------------------------------------------------------------
(* Properties of the bank-switching mappers, checked under SpecMapper       *)

\* The last step as a CPU write the bus hands to the cartridge.
CartWrite == lastOp.kind = "write" /\ lastOp.addr >= \h4018

\* The PRG bank a CPU slot reads from, by the bank's marker byte at offset 1.
BankAt(m, addr) == ReadCPU(m, addr + 1).val - 1

\* C31: with mapper 2 the 0xC000 slot always maps the last PRG bank, the
\* 0x8000 slot maps the first bank until a value is written and then the
\* bank the last value written selects, and a write leaves the pattern-table
\* and nametable mappings as they were.
C31_UxROM ==
    (~panicked /\ cartMapper.id = 2) =>
        /\ BankAt(cartMapper, \hC000) = Cardinality(DOMAIN nesImage.PrgRom) - 1
        /\ nOps = 0 => BankAt(cartMapper, \h8000) = 0
        /\ CartWrite =>
              /\ BankAt(cartMapper, \h8000) = lastOp.val
              /\ cartMapper.ppuPt0 = pre.cart.ppuPt0
              /\ cartMapper.ppuPt1 = pre.cart.ppuPt1
              /\ cartMapper.ppuNts = pre.cart.ppuNts
        /\ (nOps > 0 /\ ~CartWrite) =>
              BankAt(cartMapper, \h8000) = BankAt(pre.cart, \h8000)

\* The value 2 written, then a nametable read: bank 2 stays at 0x8000 and
\* the last of the four banks at 0xC000.
C31_Witness ==
    /\ ~panicked /\ cartMapper.id = 2
    /\ prevOp.kind = "write" /\ prevOp.val = 2
    /\ lastOp.kind = "ReadPPU"
    /\ BankAt(cartMapper, \h8000) = 2
    /\ BankAt(cartMapper, \hC000) = 3

\* C35: with mapper 1 a CPU write to 0x4018-0x5FFF changes nothing in the
\* cartridge: every byte of 0x6000-0x7FFF reads as before, and the shift
\* register, the bit counter, the control register and the bank mappings
\* are as they were.
C35_UnmappedWritesIgnored ==
    (~panicked /\ cartMapper.id = 1 /\ CartWrite /\ lastOp.addr < \h6000) =>
        /\ \A addr \in {\h6000, \h7000, \h7FFF} :
              ReadCPU(cartMapper, addr).val = ReadCPU(pre.cart, addr).val
        /\ cartMapper.shiftReg = pre.cart.shiftReg
        /\ cartMapper.whichBit = pre.cart.whichBit
        /\ cartMapper.controlReg = pre.cart.controlReg
        /\ cartMapper.cpuPages = pre.cart.cpuPages
        /\ cartMapper.ppuPt0 = pre.cart.ppuPt0
        /\ cartMapper.ppuPt1 = pre.cart.ppuPt1
        /\ cartMapper.ppuNts = pre.cart.ppuNts

\* C37: a CPU write handed to the cartridge never faults, whatever the
\* mapper and the value: the bank it selects exists.
C37_NoBankFault ==
    CartWrite =>
        /\ ~panicked
        /\ \A slot \in 0 .. 1 : cartMapper.cpuPages[slot] \in DOMAIN cartMapper.prgRom
        /\ cartMapper.ppuPtIsROM =>
              /\ cartMapper.ppuPt0.bank \in DOMAIN cartMapper.chrRom
              /\ cartMapper.ppuPt1.bank \in DOMAIN cartMapper.chrRom

====
